---------------------------- MODULE Spec2Model ----------------------------
(***************************************************************************)
(* HNAP challenge-response authentication of the cable modem monitor:      *)
(*   - HNAPJsonRequestBuilder (core/hnap_json_builder.py): login,          *)
(*     call_single, call_multiple and the HNAP_AUTH signing key;           *)
(*   - MotorolaMB8600HnapParser (parsers/motorola/mb8600_hnap.py): the     *)
(*     inline login and the request loop of parse.                         *)
(* A call is modelled at the granularity of its blocking network requests: *)
(* one action sends a request, the next one handles the device's reply.    *)
(* Calls are serialized (one call in progress at a time), as the           *)
(* synchronous code is.  The device is nondeterministic: each reply is     *)
(* drawn from a finite set of transport outcomes, HTTP statuses and bodies.*)
(*                                                                         *)
(* The parser registry (parsers/__init__.py): get_parsers and              *)
(* get_parser_by_name over the module globals _PARSER_CACHE and            *)
(* _PARSER_NAME_CACHE.  The parsers directory is a set of modules that may *)
(* change between scans.  A call is split where another thread can observe *)
(* the globals in between: before the scan, before the list is cached, and *)
(* at every entry added to the name index.  A lookup in an index that is   *)
(* already built is one step.                                              *)
(*                                                                         *)
(* Channel extraction (SpecMotorola): the "|+|" / "^" payloads of the      *)
(* MB8600 are strings, split and converted as the code does; a float is an *)
(* exact decimal num / 10^exp, or inf, or nan.  The MB7621 inherits parse  *)
(* and restart from motorola/generic.py, which is outside the sources at   *)
(* hand: the restart-window filter and restart follow their description    *)
(* and the calls their tests assert.  One behaviour is one operation on    *)
(* one modem: a poll (fetch, then parse) or a restart.                     *)
(*                                                                         *)
(* The HNAP_AUTH header (SpecHeader): the millisecond clock is an integer  *)
(* in two limbs, reduced and written out as the two builders do.           *)
(*                                                                         *)
(* The HAR sanitizer (SpecSanitizer, scripts/utils/sanitizer.py): the      *)
(* dicts and lists of a HAR are objects of a heap, so that a copy and an   *)
(* update in place differ; a JSON body is the data json.loads gives for    *)
(* it.  One behaviour is one call on freshly captured data.                *)
(***************************************************************************)
EXTENDS Integers, Sequences, FiniteSets, TLC

\* ------------------------------------------------------------------ bounds
NumChallenges == 2
MaxRecords == 2

\* ------------------------------------------------------------ input domains
Sessions == {1, 2}                \* the sessions of two unrelated devices
OneDevice == {1}
Null == "<None>"                  \* Python None / an absent JSON field
Challenges == {"c" \o ToString(i) : i \in 1..NumChallenges}
CookieValues == {"k1"}
PublicKeys == {"p1"}
Passwords == {"pw", "x"}
Statuses == {200, 201, 401, 500}
LoginResults == {Null, "OK", "SUCCESS", "success", "FAILED"}

\* A field of a JSON reply: absent, empty, or one of the given values.
Field(vals) == {Null, ""} \cup vals

\* Python truthiness of an optional string.
Falsy(v) == v = Null \/ v = ""

NoFields == [Challenge |-> Null, Cookie |-> Null, PublicKey |-> Null, LoginResult |-> Null]

\* Replies in which the request itself failed (requests.exceptions.Timeout /
\* ConnectionError): no status, no body.
TransportFailures ==
    {[transport |-> t, status |-> 0, body |-> "none"] @@ NoFields : t \in {"timeout", "connerr"}}

\* Replies whose body is not a JSON object: not JSON at all, or JSON of another
\* type (a list), on which .get raises AttributeError.
OpaqueReplies ==
    {[transport |-> "ok", status |-> st, body |-> b] @@ NoFields :
        st \in Statuses, b \in {"notjson", "nonobject"}}

\* Replies to the Action="request" step.
ChallengeReplies ==
    TransportFailures \cup OpaqueReplies \cup
    {[transport |-> "ok", status |-> st, body |-> "object",
      Challenge |-> ch, Cookie |-> ck, PublicKey |-> pk, LoginResult |-> Null] :
        st \in {200, 201, 500}, ch \in Field(Challenges), ck \in Field(CookieValues),
        pk \in Field(PublicKeys)}

\* The HNAP actions _parse_with_hnap requests, in order.
hnap_actions ==
    <<"GetMotoStatusStartupSequence", "GetMotoStatusConnectionInfo",
      "GetMotoStatusDownstreamChannelInfo", "GetMotoStatusUpstreamChannelInfo",
      "GetMotoLagStatus">>

\* Replies to a data request (call_single, call_multiple, the requests of parse).
DataReplies ==
    {r \in TransportFailures : r.transport = "timeout"} \cup
    {[transport |-> "ok", status |-> st, body |-> "object"] @@ NoFields : st \in {200, 401}}

\* Replies to the Action="login" step.
LoginReplies ==
    TransportFailures \cup OpaqueReplies \cup
    {[transport |-> "ok", status |-> st, body |-> "object",
      Challenge |-> Null, Cookie |-> Null, PublicKey |-> Null, LoginResult |-> lr] :
        st \in {200, 201, 500}, lr \in LoginResults}

\* --------------------------------------------------- parser registry: data

\* Threads of the host calling into the registry module.
Threads == {1, 2}
OneThread == {1}

\* Lists built by discovery in one run, and changes of the parsers directory.
MaxDiscoveries == 3
MaxChanges == 1

\* ModemParser: the metadata a subclass inherits unless it overrides it, and the
\* abstract methods (__abstractmethods__) it has until it implements them.
ModemParser ==
    [name |-> "Unknown", manufacturer |-> "Unknown", priority |-> 50, capabilities |-> {},
     abstractmethods |-> {"can_parse", "login", "parse"}]

MotorolaMB7621Parser ==
    [name |-> "Motorola MB7621", manufacturer |-> "Motorola", priority |-> 100,
     capabilities |-> {"DOWNSTREAM_CHANNELS", "UPSTREAM_CHANNELS", "SYSTEM_UPTIME",
                       "SOFTWARE_VERSION", "RESTART"},
     abstractmethods |-> {}]

MotorolaMB8600HnapParser ==
    [name |-> "Motorola MB8600 (HNAP)", manufacturer |-> "Motorola", priority |-> 101,
     capabilities |-> {"DOWNSTREAM_CHANNELS", "UPSTREAM_CHANNELS", "SYSTEM_UPTIME"},
     abstractmethods |-> {}]

\* motorola/generic.py, the base class mb7621 imports.
MotorolaGenericParser ==
    [name |-> "Motorola MB Series (Generic)", manufacturer |-> "Motorola", priority |-> 50,
     capabilities |-> {"DOWNSTREAM_CHANNELS", "UPSTREAM_CHANNELS"},
     abstractmethods |-> {}]

\* Parser classes a parsers directory may hold besides those of src/: a fallback
\* that keeps the base metadata, a parser of another vendor with the vendor's
\* base class (which leaves parse abstract), and a second class declaring the
\* name of the MB7621 parser.
ParserClass ==
    [cls \in {"ModemParser", "MotorolaGenericParser", "MotorolaMB7621Parser",
              "MotorolaMB8600HnapParser", "MotorolaMB7621AltParser",
              "UniversalFallbackParser", "ZyxelBaseParser", "ZyxelCM1Parser"} |->
        CASE cls = "ModemParser" -> ModemParser
          [] cls = "MotorolaGenericParser" -> MotorolaGenericParser
          [] cls = "MotorolaMB7621Parser" -> MotorolaMB7621Parser
          [] cls = "MotorolaMB8600HnapParser" -> MotorolaMB8600HnapParser
          [] cls = "MotorolaMB7621AltParser" ->
                [MotorolaMB7621Parser EXCEPT !.priority = 90]
          [] cls = "UniversalFallbackParser" ->
                [ModemParser EXCEPT !.abstractmethods = {}]
          [] cls = "ZyxelBaseParser" ->
                [ModemParser EXCEPT !.name = "Zyxel Base", !.abstractmethods = {"parse"}]
          [] cls = "ZyxelCM1Parser" ->
                [ModemParser EXCEPT !.name = "Zyxel CM1", !.manufacturer = "Zyxel",
                                    !.priority = 100, !.abstractmethods = {}]]

\* issubclass(attr, ModemParser) and attr is not ModemParser
IsParserSubclass(cls) == cls \in DOMAIN ParserClass /\ cls # "ModemParser"

\* cls() of a class built on ABC: TypeError while an abstract method is left.
Instantiable(cls) == ParserClass[cls].abstractmethods = {}

\* has_capability(capability)
has_capability(cls, capability) == capability \in ParserClass[cls].capabilities

\* An attribute of an imported module: the class it is bound to and that class's
\* __module__.
Attr(cls, module) == [cls |-> cls, module |-> module]

\* One module file under a manufacturer directory: the modules its import
\* statements need, whether executing it raises, and dir(module) (sorted by
\* attribute name) once imported.
Module(dir, module_name, imports, raises, attrs) ==
    [dir |-> dir, module_name |-> module_name, imports |-> imports, raises |-> raises,
     attrs |-> attrs]

Modules ==
    [m \in {"motorola.generic", "motorola.mb7621", "motorola.mb7621_alt",
            "motorola.mb8600_hnap", "motorola.draft", "universal.fallback",
            "zyxel.cm1"} |->
        CASE m = "motorola.generic" ->
                Module("motorola", "generic", {}, FALSE,
                       <<Attr("ModemParser", "base_parser"),
                         Attr("MotorolaGenericParser", m)>>)
          [] m = "motorola.mb7621" ->
                Module("motorola", "mb7621", {"motorola.generic"}, FALSE,
                       <<Attr("MotorolaGenericParser", "motorola.generic"),
                         Attr("MotorolaMB7621Parser", m)>>)
          [] m = "motorola.mb7621_alt" ->
                Module("motorola", "mb7621_alt", {}, FALSE,
                       <<Attr("ModemParser", "base_parser"),
                         Attr("MotorolaMB7621AltParser", m)>>)
          [] m = "motorola.mb8600_hnap" ->
                Module("motorola", "mb8600_hnap", {}, FALSE,
                       <<Attr("ModemParser", "base_parser"),
                         Attr("MotorolaMB8600HnapParser", m)>>)
          [] m = "motorola.draft" ->
                Module("motorola", "draft", {}, TRUE, <<>>)
          [] m = "universal.fallback" ->
                Module("universal", "fallback", {}, FALSE,
                       <<Attr("ModemParser", "base_parser"),
                         Attr("UniversalFallbackParser", m)>>)
          [] m = "zyxel.cm1" ->
                Module("zyxel", "cm1", {}, FALSE,
                       <<Attr("ModemParser", "base_parser"),
                         Attr("ZyxelBaseParser", m),
                         Attr("ZyxelCM1Parser", m)>>)]

ModuleNames == DOMAIN Modules

\* The parser modules of src/.
ShippedModules == {"motorola.generic", "motorola.mb7621", "motorola.mb8600_hnap"}

\* The modules that come and go while the host runs: a parser of src/ and the
\* parser of a new vendor.
HotModules == {"motorola.mb7621", "zyxel.cm1"}

\* Names asked of get_parser_by_name.
LookupNames == {"Motorola MB7621", "Zyxel CM1", "Invalid Parser Name"}

\* ---------------------------------------------- parser registry: functions

\* Code points of the characters of parser metadata, in increasing order.
Ascii == " ()-.0123456789ABCDEFGHIJKLMNOPQRSTUVWXYZ_abcdefghijklmnopqrstuvwxyz"
Ord(c) == CHOOSE i \in 1..Len(Ascii) : SubSeq(Ascii, i, i) = c

\* a < b on Python str: by code point, a proper prefix first.
RECURSIVE StrLess(_, _)
StrLess(a, b) ==
    IF b = "" THEN FALSE
    ELSE IF a = "" THEN TRUE
    ELSE IF SubSeq(a, 1, 1) = SubSeq(b, 1, 1)
         THEN StrLess(SubSeq(a, 2, Len(a)), SubSeq(b, 2, Len(b)))
         ELSE Ord(SubSeq(a, 1, 1)) < Ord(SubSeq(b, 1, 1))

\* sub in s
Contains(s, sub) ==
    \E i \in 1..(Len(s) - Len(sub) + 1) : SubSeq(s, i, i + Len(sub) - 1) = sub

sort_key(cls) ==
    LET parser == ParserClass[cls]
    IN  IF parser.manufacturer = "Unknown" THEN <<"ZZZZ", "ZZZZ">>
        ELSE IF Contains(parser.name, "Generic") THEN <<parser.manufacturer, "ZZZZ">>
        ELSE <<parser.manufacturer, parser.name>>

\* k < l on tuples of two strings.
KeyLess(k, l) == StrLess(k[1], l[1]) \/ (k[1] = l[1] /\ StrLess(k[2], l[2]))

\* list.sort(key=sort_key): stable, ascending. x goes behind every element whose
\* key is not greater than its own.
InsertByKey(s, x) ==
    LET n == Cardinality({i \in 1..Len(s) : ~KeyLess(sort_key(x), sort_key(s[i]))})
    IN  SubSeq(s, 1, n) \o <<x>> \o SubSeq(s, n + 1, Len(s))

RECURSIVE SortByKey(_)
SortByKey(s) ==
    IF s = <<>> THEN <<>>
    ELSE InsertByKey(SortByKey(SubSeq(s, 1, Len(s) - 1)), s[Len(s)])

\* os.listdir(package_dir): the manufacturer directories, in any order.
Dirs == {Modules[m].dir : m \in ModuleNames}
DirOrders == {o \in [1..Cardinality(Dirs) -> Dirs] : \A i, j \in DOMAIN o : o[i] = o[j] => i = j}

\* pkgutil.iter_modules([manufacturer_dir_path]): the modules of one directory,
\* sorted by name.
RECURSIVE ModulesSorted(_)
ModulesSorted(ms) ==
    IF ms = {} THEN <<>>
    ELSE LET first == CHOOSE m \in ms : \A o \in ms \ {m} :
                          StrLess(Modules[m].module_name, Modules[o].module_name)
         IN  <<first>> \o ModulesSorted(ms \ {first})

iter_modules(dir, present) == ModulesSorted({m \in present : Modules[m].dir = dir})

\* importlib.import_module raises: the module's own code does, or a module it
\* imports is missing.
ImportRaises(m, present) ==
    Modules[m].raises \/ \E d \in Modules[m].imports : d \notin present

\* The classes one module contributes: nothing when its import raises, else the
\* ModemParser subclasses among its attributes that were defined in it.
\* A scan of dir(module) that takes every ModemParser subclass it meets, also
\* those the module imported.
RECURSIVE RegisteredFrom_Imported(_, _)
RegisteredFrom_Imported(attrs, m) ==
    IF attrs = <<>> THEN <<>>
    ELSE (IF IsParserSubclass(Head(attrs).cls) THEN <<Head(attrs).cls>> ELSE <<>>)
         \o RegisteredFrom_Imported(Tail(attrs), m)

RECURSIVE RegisteredFrom(_, _)
RegisteredFrom(attrs, m) ==
    IF attrs = <<>> THEN <<>>
    ELSE (IF IsParserSubclass(Head(attrs).cls) /\ Head(attrs).module = m
          THEN <<Head(attrs).cls>> ELSE <<>>) \o RegisteredFrom(Tail(attrs), m)

ScanModule(m, present) ==
    IF ImportRaises(m, present) THEN <<>> ELSE RegisteredFrom(Modules[m].attrs, m)

\* A scan of one directory that gives up at the first module whose import raises.
RECURSIVE ScanModules_Abort(_, _)
ScanModules_Abort(ms, present) ==
    IF ms = <<>> \/ ImportRaises(Head(ms), present) THEN <<>>
    ELSE ScanModule(Head(ms), present) \o ScanModules_Abort(Tail(ms), present)

RECURSIVE ScanModules(_, _)
ScanModules(ms, present) ==
    IF ms = <<>> THEN <<>>
    ELSE ScanModule(Head(ms), present) \o ScanModules(Tail(ms), present)

RECURSIVE ScanDirs(_, _)
ScanDirs(order, present) ==
    IF order = <<>> THEN <<>>
    ELSE ScanModules(iter_modules(Head(order), present), present)
         \o ScanDirs(Tail(order), present)

\* The body of get_parsers between the cache check and the cache assignment.
Discover(order, present) == SortByKey(ScanDirs(order, present))

\* Discover, tabulated over every set of modules and directory order.
Discovered ==
    [present \in SUBSET ModuleNames |-> [order \in DirOrders |-> Discover(order, present)]]

\* A list object: its identity, its elements, and (history) the modules that
\* were present when discovery built it. id 0 stands for None.
ListObject(id, items, present) == [id |-> id, items |-> items, from |-> present]
NoList == ListObject(0, <<>>, {})

\* dict operations of the name index.
EmptyDict == [n \in {} |-> Null]
DictSet(d, k, v) == [n \in DOMAIN d \cup {k} |-> IF n = k THEN v ELSE d[n]]
DictGet(d, k) == IF k \in DOMAIN d THEN d[k] ELSE Null

\* for parser_class in parsers: index[parser_class.name] = parser_class
RECURSIVE IndexOf(_)
IndexOf(items) ==
    IF items = <<>> THEN EmptyDict
    ELSE DictSet(IndexOf(SubSeq(items, 1, Len(items) - 1)),
                 ParserClass[items[Len(items)]].name, items[Len(items)])

\* _PARSER_NAME_CACHE: None, or a dict.
NoNameCache == [none |-> TRUE, dict |-> EmptyDict]

\* What a call returned: nothing yet, a list, a class, None, or an exception.
NoRv == [kind |-> "none", list |-> NoList, cls |-> Null]
RvList(l) == [NoRv EXCEPT !.kind = "list", !.list = l]
RvClass(c) == IF c = Null THEN [NoRv EXCEPT !.kind = "None"]
              ELSE [NoRv EXCEPT !.kind = "class", !.cls = c]
RvRaised == [NoRv EXCEPT !.kind = "raised"]

\* A thread outside the registry's functions.
IdleThread ==
    [pc |-> "idle", op |-> "none", name |-> Null, use_cache |-> TRUE, nested |-> FALSE,
     scanned |-> FALSE, parsers |-> NoList, i |-> 0, rv |-> NoRv]

\* ------------------------------------------------- HNAP records: functions

\* The position of the first occurrence of sep in s (0: none), as str.find + 1.
find(s, sep) ==
    LET at == {i \in 1..(Len(s) - Len(sep) + 1) : SubSeq(s, i, i + Len(sep) - 1) = sep}
    IN  IF at = {} THEN 0 ELSE CHOOSE i \in at : \A j \in at : i <= j

\* s.split(sep)
RECURSIVE split(_, _)
split(s, sep) ==
    LET at == find(s, sep)
    IN  IF at = 0 THEN <<s>>
        ELSE <<SubSeq(s, 1, at - 1)>> \o split(SubSeq(s, at + Len(sep), Len(s)), sep)

\* s.strip(): whitespace removed at both ends.
RECURSIVE strip(_)
strip(s) ==
    IF s = "" THEN s
    ELSE IF SubSeq(s, 1, 1) = " " THEN strip(SubSeq(s, 2, Len(s)))
    ELSE IF SubSeq(s, Len(s), Len(s)) = " " THEN strip(SubSeq(s, 1, Len(s) - 1))
    ELSE s

Digits == "0123456789"

IsDigits(s) == s # "" /\ \A i \in 1..Len(s) : find(Digits, SubSeq(s, i, i)) # 0

\* The number a string of decimal digits denotes.
RECURSIVE DigitsValue(_)
DigitsValue(s) ==
    IF s = "" THEN 0
    ELSE 10 * DigitsValue(SubSeq(s, 1, Len(s) - 1))
         + (find(Digits, SubSeq(s, Len(s), Len(s))) - 1)

\* A leading sign and the rest of a numeric literal.
Sign(s) == IF s # "" /\ SubSeq(s, 1, 1) = "-" THEN -1 ELSE 1
Unsigned(s) ==
    IF s # "" /\ SubSeq(s, 1, 1) \in {"-", "+"} THEN SubSeq(s, 2, Len(s)) ELSE s

\* What evaluating an expression gives: a value, or the exception it raises.
Value(v) == [raises |-> "none", value |-> v]
Raises(exception) == [raises |-> exception, value |-> 0]

\* int(s) on a str: surrounding whitespace and a sign are accepted, then
\* decimal digits; anything else is a ValueError.
int(s) ==
    LET text == strip(s)
    IN  IF IsDigits(Unsigned(text)) THEN Value(Sign(text) * DigitsValue(Unsigned(text)))
        ELSE Raises("ValueError")

\* A float with a finite decimal expansion, num / 10^exp with no trailing zero
\* digit, or one of the special values.
RECURSIVE Float(_, _)
Float(num, exp) ==
    IF exp > 0 /\ num % 10 = 0 THEN Float(num \div 10, exp - 1)
    ELSE [kind |-> "finite", num |-> num, exp |-> exp]
Inf == [kind |-> "inf", num |-> 0, exp |-> 0]
NaN == [kind |-> "nan", num |-> 0, exp |-> 0]

RECURSIVE Pow10(_)
Pow10(n) == IF n = 0 THEN 1 ELSE 10 * Pow10(n - 1)

\* float(s) on a str: whitespace and a sign are accepted, then "inf",
\* "infinity" or "nan", or digits with at most one point and a digit on one of
\* its sides; anything else is a ValueError.
float(s) ==
    LET u == Unsigned(strip(s))
        dot == find(u, ".")
        whole == IF dot = 0 THEN u ELSE SubSeq(u, 1, dot - 1)
        frac == IF dot = 0 THEN "" ELSE SubSeq(u, dot + 1, Len(u))
    IN  IF u \in {"inf", "Inf", "INF", "infinity", "Infinity"} THEN Value(Inf)
        ELSE IF u \in {"nan", "NaN", "NAN"} THEN Value(NaN)
        ELSE IF /\ whole \o frac # ""
                /\ whole = "" \/ IsDigits(whole)
                /\ frac = "" \/ IsDigits(frac)
        THEN Value(Float(Sign(strip(s)) * DigitsValue(whole \o frac), Len(frac)))
        ELSE Raises("ValueError")

\* round(x) to the nearest integer, a tie going to the even one.
round(num, den) ==
    LET q == num \div den
        r == num % den
    IN  IF 2 * r > den \/ (2 * r = den /\ q % 2 = 1) THEN q + 1 ELSE q

\* A conversion that takes the MHz for kHz.
MHzToHz_kHz(f) ==
    IF f.kind = "inf" THEN Raises("OverflowError")
    ELSE IF f.kind = "nan" THEN Raises("ValueError")
    ELSE IF f.exp <= 3 THEN Value(f.num * Pow10(3 - f.exp))
    ELSE Value(round(f.num, Pow10(f.exp - 3)))

\* int(round(f * 1_000_000)): MHz to Hz. round() of an infinity raises
\* OverflowError and of a NaN raises ValueError.
MHzToHz(f) ==
    IF f.kind = "inf" THEN Raises("OverflowError")
    ELSE IF f.kind = "nan" THEN Raises("ValueError")
    ELSE IF f.exp <= 6 THEN Value(f.num * Pow10(6 - f.exp))
    ELSE Value(round(f.num, Pow10(f.exp - 6)))

\* ------------------------------------------------------ HNAP records: data
\* The entries a channel payload is made of, downstream and upstream: the
\* example of the docstring, a channel reading zero, an entry cut short, an
\* entry with text in a numeric field, an entry whose frequency is "inf", and
\* a blank entry.
DownstreamEntries ==
    <<"1^Locked^QAM256^20^543.0^1.4^45.1^41^0^",
      "2^Locked^QAM256^21^549.0^ 0.0^0^7^0^",
      "3^Locked^QAM256^22^555.0",
      "4^Locked^QAM256^23^561.0^n/a^44.0^0^0^",
      "5^Locked^QAM256^24^inf^1.0^43.9^0^0^",
      " ">>

UpstreamEntries ==
    <<"1^Locked^SC-QAM^17^5120^16.4^44.3^",
      "2^Locked^SC-QAM^18^5120^22.8^0^",
      "3^Locked^SC-QAM",
      "4^Locked^SC-QAM^20^fast^35.6^45.0^",
      "5^Locked^SC-QAM^21^5120^inf^44.0^",
      " ">>

\* The rows of the MB7621 status tables: the cells of one channel.
DownstreamRows ==
    <<<<"1", "Locked", "QAM256", "135", "567.0", "0", "0", "0", "0">>,
      <<"2", "Locked", "QAM256", "136", "573.0", "3.5", "38.2", "0", "0">>,
      <<"3", "Locked", "QAM256", "137", "579.0", "0.0", "38.0", "12", "0">>,
      <<"4", "Locked", "QAM256", "138", "585.0", "-0.4", "0", "0", "0">>>>

UpstreamRows ==
    <<<<"1", "Locked", "ATDMA", "2", "5120", "36.0", "0">>,
      <<"2", "Locked", "ATDMA", "3", "5120", "29.6", "41.5">>,
      <<"3", "Locked", "ATDMA", "4", "5120", "23.2", "0.0">>,
      <<"4", "Locked", "ATDMA", "5", "5120", "16.8", "-0.4">>>>

\* Which entries (or rows) an answer holds, in order.
Shapes(kinds) == UNION {[1..n -> 1..kinds] : n \in 0..MaxRecords}

\* Seconds since boot at which the modem answers.
UptimeSeconds == {60, 270, 299, 300, 360, 4137338}

\* sep.join(parts)
RECURSIVE join(_, _)
join(parts, sep) ==
    IF parts = <<>> THEN ""
    ELSE IF Len(parts) = 1 THEN parts[1]
    ELSE parts[1] \o sep \o join(Tail(parts), sep)

\* str(n) of a natural number, and its two-digit form.
RECURSIVE str(_)
str(n) ==
    IF n < 10 THEN SubSeq(Digits, n + 1, n + 1)
    ELSE str(n \div 10) \o SubSeq(Digits, (n % 10) + 1, (n % 10) + 1)
TwoDigits(n) == IF n < 10 THEN "0" \o str(n) ELSE str(n)

\* The modem's rendering of its uptime: "0 days 00h:04m:30s".
SystemUpTime(seconds) ==
    str(seconds \div 86400) \o " days " \o TwoDigits((seconds % 86400) \div 3600) \o "h:"
        \o TwoDigits((seconds % 3600) \div 60) \o "m:" \o TwoDigits(seconds % 60) \o "s"

\* hnap_data as the modem answers it: the fields the parser reads.
HnapAnswer(shape, seconds) ==
    [MotoConnDownstreamChannel |->
         join([i \in DOMAIN shape |-> DownstreamEntries[shape[i]]], "|+|"),
     MotoConnUpstreamChannel |->
         join([i \in DOMAIN shape |-> UpstreamEntries[shape[i]]], "|+|"),
     MotoConnSystemUpTime |-> SystemUpTime(seconds)]

\* The status page of an MB7621 as the parser reads it.
HtmlPage(shape, seconds) ==
    [downstream |-> [i \in DOMAIN shape |-> DownstreamRows[shape[i]]],
     upstream |-> [i \in DOMAIN shape |-> UpstreamRows[shape[i]]],
     system_up_time |-> SystemUpTime(seconds)]

NoHnapData ==
    [MotoConnDownstreamChannel |-> "", MotoConnUpstreamChannel |-> "",
     MotoConnSystemUpTime |-> ""]
NoHtml == [downstream |-> <<>>, upstream |-> <<>>, system_up_time |-> ""]
NoSystemInfo == [system_uptime |-> Null]
NoData ==
    [parser |-> "none", downstream |-> <<>>, upstream |-> <<>>,
     system_info |-> NoSystemInfo]

\* ------------------------------------ MotorolaMB8600HnapParser: channel records
\* The exception the first failing evaluation of a sequence raises.
RECURSIVE FirstRaised(_)
FirstRaised(evals) ==
    IF evals = <<>> THEN "none"
    ELSE IF Head(evals).raises # "none" THEN Head(evals).raises
    ELSE FirstRaised(Tail(evals))

\* int(round(float(field.strip()) * 1_000_000))
Frequency(field) ==
    LET mhz == float(strip(field))
    IN  IF mhz.raises # "none" THEN mhz ELSE MHzToHz(mhz.value)

\* The body of the inner try of _parse_downstream_from_hnap: the channel built
\* from the fields of one entry, or the exception raised on the way.
DownstreamChannel(fields) ==
    LET channel_id == int(fields[1])
        ch_id == int(fields[4])
        frequency == Frequency(fields[5])
        power == float(strip(fields[6]))
        snr == float(strip(fields[7]))
        corrected == int(fields[8])
        uncorrected == int(fields[9])
    IN  [raises |-> FirstRaised(<<channel_id, ch_id, frequency, power, snr, corrected,
                                  uncorrected>>),
         channel |-> [channel_id |-> channel_id.value,
                      lock_status |-> strip(fields[2]),
                      modulation |-> strip(fields[3]),
                      ch_id |-> ch_id.value,
                      frequency |-> frequency.value,
                      power |-> power.value,
                      snr |-> snr.value,
                      corrected |-> corrected.value,
                      uncorrected |-> uncorrected.value]]

\* The body of the inner try of _parse_upstream_from_hnap.
UpstreamChannel(fields) ==
    LET channel_id == int(fields[1])
        ch_id == int(fields[4])
        symbol_rate == int(fields[5])
        frequency == Frequency(fields[6])
        power == float(strip(fields[7]))
    IN  [raises |-> FirstRaised(<<channel_id, ch_id, symbol_rate, frequency, power>>),
         channel |-> [channel_id |-> channel_id.value,
                      lock_status |-> strip(fields[2]),
                      modulation |-> strip(fields[3]),
                      ch_id |-> ch_id.value,
                      symbol_rate |-> symbol_rate.value,
                      frequency |-> frequency.value,
                      power |-> power.value]]

\* The loop over channel_entries: a blank entry and an entry with too few fields
\* are skipped, and so is one whose fields raise ValueError or IndexError; any
\* other exception leaves the loop for the handler of the outer try, which logs
\* it, and the channels appended so far are returned.
RECURSIVE ParseEntries(_, _, _)
ParseEntries(channel_entries, direction, channels) ==
    IF channel_entries = <<>> THEN channels
    ELSE LET entry == Head(channel_entries)
             fields == split(entry, "^")
             parse == IF direction = "downstream" THEN DownstreamChannel(fields)
                      ELSE UpstreamChannel(fields)
         IN  IF strip(entry) = "" THEN
                 ParseEntries(Tail(channel_entries), direction, channels)
             ELSE IF Len(fields) < (IF direction = "downstream" THEN 9 ELSE 7) THEN
                 ParseEntries(Tail(channel_entries), direction, channels)
             ELSE IF parse.raises = "none" THEN
                 ParseEntries(Tail(channel_entries), direction,
                              Append(channels, parse.channel))
             ELSE IF parse.raises \in {"ValueError", "IndexError"} THEN
                 ParseEntries(Tail(channel_entries), direction, channels)
             ELSE channels

\* _parse_downstream_from_hnap(hnap_data)
_parse_downstream_from_hnap(data) ==
    IF data.MotoConnDownstreamChannel = "" THEN <<>>
    ELSE ParseEntries(split(data.MotoConnDownstreamChannel, "|+|"), "downstream", <<>>)

\* _parse_upstream_from_hnap(hnap_data)
_parse_upstream_from_hnap(data) ==
    IF data.MotoConnUpstreamChannel = "" THEN <<>>
    ELSE ParseEntries(split(data.MotoConnUpstreamChannel, "|+|"), "upstream", <<>>)

\* _parse_system_info_from_hnap(hnap_data): system_uptime is the text of
\* MotoConnSystemUpTime when it is not empty (Null: key not set).
_parse_system_info_from_hnap(data) ==
    [system_uptime |-> IF data.MotoConnSystemUpTime # "" THEN data.MotoConnSystemUpTime
                       ELSE Null]

\* ------------------------------ MotorolaGenericParser.parse (motorola/generic.py)
RESTART_WINDOW_SECONDS == 300

\* A reading reported as None.
NoReading == [kind |-> "None", num |-> 0, exp |-> 0]

\* The seconds of an uptime text "D days HHh:MMm:SSs"; ValueError otherwise.
parse_uptime_to_seconds(text) ==
    LET days == split(text, " days ")
        clock == split(days[2], ":")
        unit(i) == int(SubSeq(clock[i], 1, Len(clock[i]) - 1))
    IN  IF /\ Len(days) = 2 /\ Len(clock) = 3 /\ int(days[1]).raises = "none"
           /\ \A i \in 1..3 : unit(i).raises = "none"
        THEN Value(int(days[1]).value * 86400 + unit(1).value * 3600
                   + unit(2).value * 60 + unit(3).value)
        ELSE Raises("ValueError")

\* A window that still holds at its upper end.
is_restarting_Inclusive(text) ==
    /\ parse_uptime_to_seconds(text).raises = "none"
    /\ parse_uptime_to_seconds(text).value <= RESTART_WINDOW_SECONDS

\* Whether the page was read within the restart window.
is_restarting(text) ==
    /\ parse_uptime_to_seconds(text).raises = "none"
    /\ parse_uptime_to_seconds(text).value < RESTART_WINDOW_SECONDS

\* A filter that lets every reading through.
FilterReading_Never(reading, restarting) == reading

\* A power or SNR reading as parse reports it: None for a zero read within the
\* restart window.
FilterReading(reading, restarting) ==
    IF restarting /\ reading.kind = "finite" /\ reading.num = 0 THEN NoReading ELSE reading

\* MotorolaGenericParser.parse(soup): the channels of the two tables and the
\* uptime text.
MotorolaGenericParse(page) ==
    [parser |-> "MotorolaMB7621Parser",
     downstream |->
         [i \in DOMAIN page.downstream |->
             LET cells == page.downstream[i]
             IN  [channel_id |-> int(cells[1]).value,
                  lock_status |-> strip(cells[2]),
                  modulation |-> strip(cells[3]),
                  ch_id |-> int(cells[4]).value,
                  frequency |-> Frequency(cells[5]).value,
                  power |-> FilterReading(float(cells[6]).value,
                                          is_restarting(page.system_up_time)),
                  snr |-> FilterReading(float(cells[7]).value,
                                        is_restarting(page.system_up_time)),
                  corrected |-> int(cells[8]).value,
                  uncorrected |-> int(cells[9]).value]],
     upstream |->
         [i \in DOMAIN page.upstream |->
             LET cells == page.upstream[i]
             IN  [channel_id |-> int(cells[1]).value,
                  lock_status |-> strip(cells[2]),
                  modulation |-> strip(cells[3]),
                  ch_id |-> int(cells[4]).value,
                  symbol_rate |-> int(cells[5]).value,
                  frequency |-> Frequency(cells[6]).value,
                  power |-> FilterReading(float(cells[7]).value,
                                          is_restarting(page.system_up_time))]],
     system_info |-> [system_uptime |-> page.system_up_time]]

\* ------------------------------------------------------------------- state
VARIABLES
    private_key,    \* HNAPJsonRequestBuilder._private_key (Null = None)
    cookies,        \* session.cookies of each session: [uid, PrivateKey]
    pc,             \* position of the call in progress ("idle": none)
    frame,          \* arguments and locals of the call in progress / last call
    sent,           \* requests sent by the call in progress / last call, in order
    replies,        \* replies received by the call in progress / last call
    ret,            \* return value of the last call
    key_owner,      \* history: session whose login derived private_key (0: none)
    logged_in,      \* history: sessions on which a builder login returned success
    installed,      \* parser modules present under the parsers package directory
    _PARSER_CACHE,  \* parsers._PARSER_CACHE: a list object (id 0 = None)
    _PARSER_NAME_CACHE, \* parsers._PARSER_NAME_CACHE: [none, dict]
    threads,        \* each thread's position and locals inside the registry
    next_id,        \* identity of the next list object discovery allocates
    changes,        \* history: changes made to the parsers directory
    uptime,         \* history: seconds since boot when the modem last answered
    fetched,        \* what the last poll fetched: "none", "hnap" or "html"
    hnap_data,      \* hnap_data of _parse_with_hnap: the fields the parser reads
    html,           \* the status page of an MB7621: its rows and uptime text
    parsed,         \* the dictionary parse returned for the last poll
    http,           \* requests restart sent through the session, in order
    restart_pc,     \* position of the restart in progress ("idle": none)
    restart_ret,    \* what the last restart returned ("none": nothing yet)
    now,            \* time.time() * 1000 when the last HNAP_AUTH header was built
    hnap_auth,      \* the last HNAP_AUTH header built: who built it, key, action, value
    heap,           \* the dicts and lists of the HAR data, by identity
    sanitized       \* the last call of the sanitizer: function, argument, result

hnap == <<private_key, cookies, pc, frame, sent, replies, ret, key_owner, logged_in>>

registry == <<installed, _PARSER_CACHE, _PARSER_NAME_CACHE, threads, next_id, changes>>

motorola == <<uptime, fetched, hnap_data, html, parsed, http, restart_pc, restart_ret>>

header == <<now, hnap_auth>>

sanitizer == <<heap, sanitized>>

vars == <<private_key, cookies, pc, frame, sent, replies, ret, key_owner, logged_in,
          installed, _PARSER_CACHE, _PARSER_NAME_CACHE, threads, next_id, changes,
          uptime, fetched, hnap_data, html, parsed, http, restart_pc, restart_ret,
          now, hnap_auth, heap, sanitized>>

\* -------------------------------------------------------------- primitives

\* _hmac_md5 / _hmac_md5_upper: HMAC-MD5 as an injective symbolic function of
\* (key, message); the digest itself is not computed.
_hmac_md5(key, message) == "H(" \o key \o "|" \o message \o ")"

\* MotorolaMB8600HnapParser._hmac_md5_upper: the same HMAC-MD5, upper-case hex.
_hmac_md5_upper(key, message) == "H(" \o key \o "|" \o message \o ")"

\* The key _get_hnap_auth signs with.
SignKey(k) == IF Falsy(k) THEN "withoutloginkey" ELSE k

\* response.raise_for_status(): raises for 4xx and 5xx.
RaisesForStatus(st) == st >= 400 /\ st < 600

NoFrame == [call |-> "none", session |-> 0, password |-> Null,
            challenge |-> Null, cookie |-> Null, public_key |-> Null, key |-> Null,
            actions |-> <<>>, base_url |-> Null]

\* The dictionary parse returns: the channel lists ("channels" when the action's
\* response was read, "empty" otherwise) and the authentication-failure flags.
NoDiagnostic == [parser |-> Null, error |-> Null, error_type |-> Null]
NoResult == [downstream |-> Null, upstream |-> Null, system_info |-> Null,
             auth_failure |-> FALSE,
             login_page_detected |-> FALSE, diagnostic_context |-> NoDiagnostic]

NoRet == [call |-> "none", session |-> 0, success |-> FALSE, raised |-> FALSE,
          detail |-> Null, result |-> NoResult]

\* One request as it leaves session.post: the session and its uid cookie at that
\* moment, the SOAP action, the Login parameters (Null when the action has none),
\* the key its HNAP_AUTH header is signed with, and (history) the session whose
\* login derived that key (0 for "withoutloginkey").
Request(s, api, soap, act, lp, key, from, uid) ==
    [session |-> s, call |-> api, soapAction |-> soap, Action |-> act,
     LoginPassword |-> lp, key |-> key, keyFrom |-> from, uid |-> uid,
     actions |-> <<>>]

\* The call in progress returns (success, detail).
Return(success, detail) ==
    /\ pc' = "idle"
    /\ ret' = [call |-> frame.call, session |-> frame.session, success |-> success,
               raised |-> FALSE, detail |-> detail, result |-> NoResult]

\* The registry module as imported: both caches None, no call in progress.
RegistryInit ==
    /\ _PARSER_CACHE = NoList
    /\ _PARSER_NAME_CACHE = NoNameCache
    /\ threads = [t \in Threads |-> IdleThread]
    /\ next_id = 1
    /\ changes = 0

HnapInit ==
    /\ private_key = Null
    /\ cookies = [s \in Sessions |-> [uid |-> Null, PrivateKey |-> Null]]
    /\ pc = "idle"
    /\ frame = NoFrame
    /\ sent = <<>>
    /\ replies = <<>>
    /\ ret = NoRet
    /\ key_owner = 0
    /\ logged_in = {}

\* No HNAP_AUTH header built yet.
HeaderInit ==
    /\ now = [ms |-> [hi |-> 0, lo |-> 0], tenths |-> 0]
    /\ hnap_auth = [by |-> "none", key |-> "", action |-> "", value |-> ""]

\* No HAR data captured, no call of the sanitizer yet.
SanitizerInit ==
    /\ heap = <<>>
    /\ sanitized = [fn |-> "none", before |-> <<>>,
                    arg |-> [t |-> "None", ref |-> 0, s |-> "",
                             json |-> [t |-> "none", s |-> "", members |-> <<>>]],
                    result |-> [t |-> "None", ref |-> 0, s |-> "",
                                json |-> [t |-> "none", s |-> "", members |-> <<>>]]]

MotorolaInit ==
    /\ uptime = 0
    /\ fetched = "none"
    /\ hnap_data = NoHnapData
    /\ html = NoHtml
    /\ parsed = NoData
    /\ http = <<>>
    /\ restart_pc = "idle"
    /\ restart_ret = "none"

Init ==
    /\ installed = ShippedModules
    /\ RegistryInit
    /\ HnapInit
    /\ MotorolaInit
    /\ HeaderInit
    /\ SanitizerInit

\* ------------------------------------------ HNAPJsonRequestBuilder.login

\* login(session, base_url, username, password), up to the first session.post:
\* the Action="request" call, signed by _get_hnap_auth("Login").
JsonLoginCall(s, pw) ==
    /\ pc = "idle"
    /\ pc' = "json_challenge"
    /\ frame' = [NoFrame EXCEPT !.call = "json_login", !.session = s, !.password = pw]
    /\ sent' = <<Request(s, "json_login", "Login", "request", "", SignKey(private_key),
                         IF Falsy(private_key) THEN 0 ELSE key_owner, cookies[s].uid)>>
    /\ replies' = <<>>
    /\ ret' = NoRet
    /\ UNCHANGED <<private_key, cookies, key_owner, logged_in>>

\* A handler that would send the failed request once more after a timeout.
JsonLoginExcept_Retry(rep) ==
    IF rep.transport = "timeout" /\ Len(sent) < 3 THEN
        /\ sent' = Append(sent, sent[Len(sent)])
        /\ replies' = Append(replies, rep)
        /\ UNCHANGED <<private_key, key_owner, cookies, pc, frame, ret, logged_in>>
    ELSE
        /\ private_key' = Null
        /\ key_owner' = 0
        /\ Return(FALSE, "")
        /\ replies' = Append(replies, rep)
        /\ UNCHANGED <<cookies, frame, sent, logged_in>>

\* The except clauses of login (Timeout, ConnectionError, Exception): clear the
\* key and return (False, "").
JsonLoginExcept(rep) ==
    /\ private_key' = Null
    /\ key_owner' = 0
    /\ Return(FALSE, "")
    /\ replies' = Append(replies, rep)
    /\ UNCHANGED <<cookies, frame, sent, logged_in>>

\* PrivateKey = HMAC_MD5(PublicKey + password, Challenge)
JsonPrivateKey(public_key, password, challenge) ==
    _hmac_md5(public_key \o password, challenge)

\* LoginPassword = HMAC_MD5(PrivateKey, Challenge)
JsonLoginPassword_Swapped(key, challenge) == _hmac_md5(challenge, key)
JsonLoginPassword(key, challenge) == _hmac_md5(key, challenge)

\* login from the challenge response to either a return or the second
\* session.post (the Action="login" call).
JsonChallengeHandled(rep) ==
    LET s == frame.session
        complete == ~Falsy(rep.Challenge) /\ ~Falsy(rep.Cookie) /\ ~Falsy(rep.PublicKey)
        key == JsonPrivateKey(rep.PublicKey, frame.password, rep.Challenge)
        login_password == JsonLoginPassword(key, rep.Challenge)
    IN
    IF rep.status # 200 \/ rep.body = "notjson" THEN
        /\ Return(FALSE, "response.text")
        /\ replies' = Append(replies, rep)
        /\ UNCHANGED <<private_key, key_owner, cookies, frame, sent, logged_in>>
    ELSE IF rep.body = "nonobject" THEN
        JsonLoginExcept(rep)
    ELSE IF ~complete THEN
        /\ Return(FALSE, "response.text")
        /\ replies' = Append(replies, rep)
        /\ frame' = [frame EXCEPT !.challenge = rep.Challenge, !.cookie = rep.Cookie,
                                  !.public_key = rep.PublicKey]
        /\ UNCHANGED <<private_key, key_owner, cookies, sent, logged_in>>
    ELSE
        /\ private_key' = key
        /\ key_owner' = s
        /\ cookies' = [cookies EXCEPT ![s].uid = rep.Cookie]
        /\ frame' = [frame EXCEPT !.challenge = rep.Challenge, !.cookie = rep.Cookie,
                                  !.public_key = rep.PublicKey, !.key = key]
        /\ sent' = Append(sent, Request(s, "json_login", "Login", "login", login_password,
                                        SignKey(key), s, rep.Cookie))
        /\ replies' = Append(replies, rep)
        /\ pc' = "json_login"
        /\ UNCHANGED <<ret, logged_in>>

\* The device's reply to the Action="request" call arrives (or the call fails).
JsonChallengeReply(rep) ==
    /\ pc = "json_challenge"
    /\ IF rep.transport # "ok" THEN JsonLoginExcept(rep) ELSE JsonChallengeHandled(rep)

\* login from the response to the Action="login" call to its return.
JsonLoginHandled(rep) ==
    LET s == frame.session
        login_result == IF rep.LoginResult = Null THEN "" ELSE rep.LoginResult
    IN
    IF rep.status # 200 THEN
        /\ private_key' = Null
        /\ key_owner' = 0
        /\ Return(FALSE, "response.text")
        /\ replies' = Append(replies, rep)
        /\ UNCHANGED <<cookies, frame, sent, logged_in>>
    ELSE IF rep.body = "notjson" THEN
        /\ Return(TRUE, "response.text")
        /\ replies' = Append(replies, rep)
        /\ logged_in' = logged_in \cup {s}
        /\ UNCHANGED <<private_key, key_owner, cookies, frame, sent>>
    ELSE IF rep.body = "nonobject" THEN
        JsonLoginExcept(rep)
    ELSE IF login_result \in {"OK", "SUCCESS"} THEN
        /\ Return(TRUE, "response.text")
        /\ replies' = Append(replies, rep)
        /\ logged_in' = logged_in \cup {s}
        /\ UNCHANGED <<private_key, key_owner, cookies, frame, sent>>
    ELSE
        /\ private_key' = Null
        /\ key_owner' = 0
        /\ Return(FALSE, "response.text")
        /\ replies' = Append(replies, rep)
        /\ UNCHANGED <<cookies, frame, sent, logged_in>>

\* The device's reply to the Action="login" call arrives (or the call fails).
JsonLoginReply(rep) ==
    /\ pc = "json_login"
    /\ IF rep.transport # "ok" THEN JsonLoginExcept(rep) ELSE JsonLoginHandled(rep)

\* --------------------------- HNAPJsonRequestBuilder.call_single / call_multiple

\* A builder that signs data requests without the key of the login.
HnapAuthKey_Default == "withoutloginkey"

\* The key _get_hnap_auth signs a data request with.
HnapAuthKey == SignKey(private_key)

\* The action lists call_multiple is called with.
ActionBatches ==
    {<<hnap_actions[2]>>, <<hnap_actions[3], hnap_actions[4]>>}

\* One data request and its outcome: the response text is returned, or
\* session.post / raise_for_status raises to the caller.
JsonCall(s, api, soap, actions, rep) ==
    /\ pc = "idle"
    /\ frame' = [NoFrame EXCEPT !.call = api, !.session = s, !.actions = actions]
    /\ sent' = <<[Request(s, api, soap, Null, Null, HnapAuthKey,
                          IF Falsy(private_key) THEN 0 ELSE key_owner, cookies[s].uid)
                     EXCEPT !.actions = actions]>>
    /\ replies' = <<rep>>
    /\ pc' = "idle"
    /\ ret' = IF rep.transport # "ok" \/ RaisesForStatus(rep.status)
              THEN [call |-> api, session |-> s, success |-> FALSE, raised |-> TRUE,
                    detail |-> Null, result |-> NoResult]
              ELSE [call |-> api, session |-> s, success |-> TRUE, raised |-> FALSE,
                    detail |-> "response.text", result |-> NoResult]
    /\ UNCHANGED <<private_key, cookies, key_owner, logged_in>>

\* json={action: params or {}}
call_single(s, action, rep) == JsonCall(s, "call_single", action, <<action>>, rep)

\* json={"GetMultipleHNAPs": {action: {} for action in actions}}
call_multiple(s, actions, rep) ==
    JsonCall(s, "call_multiple", "GetMultipleHNAPs", actions, rep)

\* ------------------------------------------ MotorolaMB8600HnapParser.login

\* _send_soap_action raises: session.post fails, raise_for_status raises,
\* response.json() raises, or the JSON value has no .get.
MbSoapRaises(rep) ==
    \/ rep.transport # "ok"
    \/ RaisesForStatus(rep.status)
    \/ rep.body \in {"notjson", "nonobject"}

\* login up to the first _send_soap_action: Action="request", signed with the
\* default private_key argument.
MbLoginCall(s, pw) ==
    /\ pc = "idle"
    /\ pc' = "mb_challenge"
    /\ frame' = [NoFrame EXCEPT !.call = "mb_login", !.session = s, !.password = pw]
    /\ sent' = <<Request(s, "mb_login", "Login", "request", Null, "withoutloginkey", 0,
                         cookies[s].uid)>>
    /\ replies' = <<>>
    /\ ret' = NoRet
    /\ UNCHANGED <<private_key, cookies, key_owner, logged_in>>

\* except Exception: return (False, str(e)).
MbLoginExcept(rep) ==
    /\ Return(FALSE, "str(e)")
    /\ replies' = Append(replies, rep)
    /\ UNCHANGED <<private_key, cookies, key_owner, frame, sent, logged_in>>

\* f"{value}": the text of a str is itself, the text of None is "None".
Format(value) == IF value = Null THEN "None" ELSE value

\* private_key = HMAC-MD5(f"{public_key}{password}", challenge)
MbPrivateKey(public_key, password, challenge) ==
    _hmac_md5_upper(public_key \o Format(password), challenge)

\* login_password = HMAC-MD5(private_key, challenge)
MbLoginPassword(key, challenge) == _hmac_md5_upper(key, challenge)

\* login from the challenge response to either a return or the second
\* _send_soap_action (Action="login").
MbChallengeHandled(rep) ==
    LET s == frame.session
        cookie == IF rep.Cookie = Null THEN "" ELSE rep.Cookie
        public_key == IF rep.PublicKey = Null THEN "" ELSE rep.PublicKey
        challenge == IF rep.Challenge = Null THEN "" ELSE rep.Challenge
        uid == IF Falsy(cookie) THEN cookies[s].uid ELSE cookie
        key == MbPrivateKey(public_key, frame.password, challenge)
        login_password == MbLoginPassword(key, challenge)
    IN
    /\ replies' = Append(replies, rep)
    /\ IF Falsy(public_key) \/ Falsy(challenge) THEN
            /\ cookies' = [cookies EXCEPT ![s].uid = uid]
            /\ frame' = [frame EXCEPT !.challenge = challenge, !.cookie = cookie,
                                      !.public_key = public_key]
            /\ Return(FALSE, "Missing authentication parameters")
            /\ UNCHANGED sent
       ELSE
            /\ cookies' = [cookies EXCEPT ![s] = [uid |-> uid, PrivateKey |-> key]]
            /\ frame' = [frame EXCEPT !.challenge = challenge, !.cookie = cookie,
                                      !.public_key = public_key, !.key = key]
            /\ sent' = Append(sent, Request(s, "mb_login", "Login", "login", login_password,
                                            key, s, uid))
            /\ pc' = "mb_login"
            /\ UNCHANGED ret
    /\ UNCHANGED <<private_key, key_owner, logged_in>>

\* The device's reply to the Action="request" call arrives (or the call fails).
MbChallengeReply(rep) ==
    /\ pc = "mb_challenge"
    /\ IF MbSoapRaises(rep) THEN MbLoginExcept(rep) ELSE MbChallengeHandled(rep)

\* The check of LoginResult.
MbLoginAccepted(login_result) == login_result = "OK" \/ login_result = "success"

\* login from the response to the Action="login" call to its return.
MbLoginHandled(rep) ==
    LET login_result == IF rep.LoginResult = Null THEN "" ELSE rep.LoginResult
    IN
    /\ Return(MbLoginAccepted(login_result), login_result)
    /\ replies' = Append(replies, rep)
    /\ UNCHANGED <<private_key, cookies, key_owner, frame, sent, logged_in>>

\* The device's reply to the Action="login" call arrives (or the call fails).
MbLoginReply(rep) ==
    /\ pc = "mb_login"
    /\ IF MbSoapRaises(rep) THEN MbLoginExcept(rep) ELSE MbLoginHandled(rep)

\* ------------------------------- MotorolaMB8600HnapParser._parse_with_hnap

\* private_key = session.cookies.get("PrivateKey", "withoutloginkey")
MbParseKey(s) ==
    IF cookies[s].PrivateKey = Null THEN "withoutloginkey" ELSE cookies[s].PrivateKey

\* parse / _parse_with_hnap up to the first request: the key is read once from
\* the session's PrivateKey cookie.
MbParseCall(s, base_url) ==
    LET key == MbParseKey(s)
    IN
    /\ pc = "idle"
    /\ pc' = "mb_parse"
    /\ frame' = [NoFrame EXCEPT !.call = "mb_parse", !.session = s, !.key = key,
                                !.base_url = base_url]
    /\ sent' = <<Request(s, "mb_parse", hnap_actions[1], Null, Null, key,
                         IF cookies[s].PrivateKey = Null THEN 0 ELSE s, cookies[s].uid)>>
    /\ replies' = <<>>
    /\ ret' = NoRet
    /\ UNCHANGED <<private_key, cookies, key_owner, logged_in>>

\* str(error) for the exception _send_soap_action raises on a reply, as the set
\* of auth_indicators it contains: raise_for_status words a 401 as
\* "401 Client Error: Unauthorized ..."; a timeout names none of them.
ErrorIndicators(rep) ==
    IF rep.transport = "ok" /\ rep.status = 401 THEN {"401", "unauthorized"}
    ELSE IF rep.transport = "ok" /\ rep.status = 403 THEN {"403", "forbidden"}
    ELSE {}

auth_indicators ==
    {"401", "403", "unauthorized", "forbidden", "authentication failed", "login failed",
     "invalid credentials", "session timeout", "invalid session",
     "\"loginresult\":\"failed\"", "\"loginresult\": \"failed\""}

\* _is_auth_failure(error): some indicator occurs in str(error).lower().
_is_auth_failure(indicators) == indicators \cap auth_indicators # {}

\* The except branch of parse: what it returns for an error that reaches it.
MbParseExcept(indicators) ==
    IF _is_auth_failure(indicators)
    THEN [downstream |-> "empty", upstream |-> "empty", system_info |-> "empty",
          auth_failure |-> TRUE,
          login_page_detected |-> TRUE,
          diagnostic_context |-> [parser |-> "MB8600 HNAP", error |-> "str(error)[:200]",
                                  error_type |-> "HNAP authentication failure"]]
    ELSE [NoResult EXCEPT !.downstream = "empty", !.upstream = "empty",
                          !.system_info = "empty"]

\* hnap_data[action]: the action's response, or {} when _send_soap_action raised
\* (the loop's own except catches every Exception and goes on).
HnapData(rep) == IF MbSoapRaises(rep) THEN "{}" ELSE "response"

\* _parse_downstream_from_hnap / _parse_upstream_from_hnap over hnap_data.
MbChannels(data) == IF data = "{}" THEN "empty" ELSE "channels"

\* _parse_system_info_from_hnap over hnap_data: the fields of the connection
\* info and of the startup sequence.
MbSystemInfo(startup, connection) ==
    IF startup = "{}" /\ connection = "{}" THEN "empty" ELSE "info"

\* A parse that gives up all the data when one action failed.
MbParseResult_AllOrNothing(reps) ==
    IF \E i \in DOMAIN reps : MbSoapRaises(reps[i])
    THEN [NoResult EXCEPT !.downstream = "empty", !.upstream = "empty",
                          !.system_info = "empty"]
    ELSE [NoResult EXCEPT !.downstream = "channels", !.upstream = "channels",
                          !.system_info = "info"]

\* The dictionary _parse_with_hnap builds from the five replies.
MbParseResult(reps) ==
    [NoResult EXCEPT !.downstream = MbChannels(HnapData(reps[3])),
                     !.upstream = MbChannels(HnapData(reps[4])),
                     !.system_info = MbSystemInfo(HnapData(reps[1]), HnapData(reps[2]))]

\* A loop that requests an action again when its request failed.
MbParseReply_Retry(rep) ==
    /\ pc = "mb_parse"
    /\ replies' = Append(replies, rep)
    /\ IF Len(sent) < Len(hnap_actions) THEN
            /\ sent' = Append(sent, Request(frame.session, "mb_parse",
                                            hnap_actions[IF MbSoapRaises(rep) THEN Len(sent)
                                                         ELSE Len(sent) + 1], Null, Null,
                                            frame.key, sent[1].keyFrom,
                                            cookies[frame.session].uid))
            /\ UNCHANGED <<pc, ret>>
       ELSE
            /\ pc' = "idle"
            /\ ret' = [call |-> frame.call, session |-> frame.session, success |-> TRUE,
                       raised |-> FALSE, detail |-> "result",
                       result |-> MbParseResult(replies')]
            /\ UNCHANGED sent
    /\ UNCHANGED <<private_key, cookies, key_owner, frame, logged_in>>

\* One turn of the loop over hnap_actions: the reply (or the caught exception)
\* is stored, and the next action is requested or the result is returned.
MbParseReply(rep) ==
    /\ pc = "mb_parse"
    /\ replies' = Append(replies, rep)
    /\ IF Len(sent) < Len(hnap_actions) THEN
            /\ sent' = Append(sent, Request(frame.session, "mb_parse",
                                            hnap_actions[Len(sent) + 1], Null, Null,
                                            frame.key, sent[1].keyFrom,
                                            cookies[frame.session].uid))
            /\ UNCHANGED <<pc, ret>>
       ELSE
            /\ pc' = "idle"
            /\ ret' = [call |-> frame.call, session |-> frame.session, success |-> TRUE,
                       raised |-> FALSE, detail |-> "result",
                       result |-> MbParseResult(replies')]
            /\ UNCHANGED sent
    /\ UNCHANGED <<private_key, cookies, key_owner, frame, logged_in>>

\* The arguments parse is called with: no session (0) or a session, and no
\* base URL, an empty one, or the modem's.
BaseUrls == {Null, "", "http://192.168.100.1"}

\* A check that only looks at the session.
MissingArguments_SessionOnly(session, base_url) == session = 0

\* not session or not base_url
MissingArguments(session, base_url) == session = 0 \/ Falsy(base_url)

\* MotorolaMB8600HnapParser.parse(soup, session, base_url): ValueError when an
\* argument is missing ("parse" returned before _parse_with_hnap was entered),
\* else _parse_with_hnap.
parse(session, base_url) ==
    IF MissingArguments(session, base_url) THEN
        /\ pc = "idle"
        /\ frame' = [NoFrame EXCEPT !.call = "parse", !.session = session,
                                    !.base_url = base_url]
        /\ sent' = <<>>
        /\ replies' = <<>>
        /\ ret' = [call |-> "parse", session |-> session, success |-> FALSE,
                   raised |-> TRUE, detail |-> "ValueError", result |-> NoResult]
        /\ UNCHANGED <<pc, private_key, cookies, key_owner, logged_in>>
    ELSE MbParseCall(session, base_url)

\* One device polled through one session: every operation of the builder and of
\* the MB8600 parser, on the session of that device.
Next ==
    \/ (\E s \in OneDevice, pw \in Passwords : JsonLoginCall(s, pw)) /\ UNCHANGED <<registry, motorola, header, sanitizer>>
    \/ (\E rep \in ChallengeReplies : JsonChallengeReply(rep)) /\ UNCHANGED <<registry, motorola, header, sanitizer>>
    \/ (\E rep \in LoginReplies : JsonLoginReply(rep)) /\ UNCHANGED <<registry, motorola, header, sanitizer>>
    \/ (\E s \in OneDevice, rep \in DataReplies : call_single(s, hnap_actions[2], rep)) /\ UNCHANGED <<registry, motorola, header, sanitizer>>
    \/ (\E s \in OneDevice, actions \in ActionBatches, rep \in DataReplies :
            call_multiple(s, actions, rep)) /\ UNCHANGED <<registry, motorola, header, sanitizer>>
    \/ (\E s \in OneDevice, pw \in Passwords : MbLoginCall(s, pw)) /\ UNCHANGED <<registry, motorola, header, sanitizer>>
    \/ (\E rep \in ChallengeReplies : MbChallengeReply(rep)) /\ UNCHANGED <<registry, motorola, header, sanitizer>>
    \/ (\E rep \in LoginReplies : MbLoginReply(rep)) /\ UNCHANGED <<registry, motorola, header, sanitizer>>
    \/ (\E s \in OneDevice \cup {0}, base_url \in BaseUrls : parse(s, base_url))
       /\ UNCHANGED <<registry, motorola, header, sanitizer>>
    \/ (\E rep \in DataReplies : MbParseReply(rep)) /\ UNCHANGED <<registry, motorola, header, sanitizer>>

Spec == Init /\ [][Next]_vars

\* One HNAPJsonRequestBuilder instance used with the sessions of two devices, its
\* calls interleaved in any order.
NextShared ==
    \/ (\E s \in Sessions, pw \in Passwords : JsonLoginCall(s, pw)) /\ UNCHANGED <<registry, motorola, header, sanitizer>>
    \/ (\E rep \in ChallengeReplies : JsonChallengeReply(rep)) /\ UNCHANGED <<registry, motorola, header, sanitizer>>
    \/ (\E rep \in LoginReplies : JsonLoginReply(rep)) /\ UNCHANGED <<registry, motorola, header, sanitizer>>
    \/ (\E s \in Sessions, rep \in DataReplies : call_single(s, hnap_actions[2], rep)) /\ UNCHANGED <<registry, motorola, header, sanitizer>>
    \/ (\E s \in Sessions, actions \in ActionBatches, rep \in DataReplies :
            call_multiple(s, actions, rep)) /\ UNCHANGED <<registry, motorola, header, sanitizer>>

SpecShared == Init /\ [][NextShared]_vars

\* MotorolaMB8600HnapParser.login called without credentials (username and
\* password None) on one device.
NextNoCredentials ==
    \/ (\E s \in OneDevice : MbLoginCall(s, Null)) /\ UNCHANGED <<registry, motorola, header, sanitizer>>
    \/ (\E rep \in ChallengeReplies : MbChallengeReply(rep)) /\ UNCHANGED <<registry, motorola, header, sanitizer>>
    \/ (\E rep \in LoginReplies : MbLoginReply(rep)) /\ UNCHANGED <<registry, motorola, header, sanitizer>>

SpecNoCredentials == Init /\ [][NextNoCredentials]_vars

\* ------------------------------------------------ parser registry: actions

\* A get_parsers that starts discovery whatever the cache holds.
get_parsers_Rescan(t, use_cache) ==
    /\ threads[t].pc = "idle"
    /\ threads' = [threads EXCEPT ![t] =
            [IdleThread EXCEPT !.pc = "scan", !.op = "get_parsers", !.use_cache = use_cache]]
    /\ _PARSER_NAME_CACHE' = IF use_cache THEN _PARSER_NAME_CACHE ELSE NoNameCache
    /\ UNCHANGED <<installed, _PARSER_CACHE, next_id, changes>>
    /\ UNCHANGED <<hnap, motorola, header, sanitizer>>

\* get_parsers(use_cache) called directly, up to the start of discovery: the
\* cached list is returned, or the name index is dropped (cache bypass only)
\* and discovery begins.
get_parsers(t, use_cache) ==
    /\ threads[t].pc = "idle"
    /\ IF use_cache /\ _PARSER_CACHE.id # 0 THEN
            /\ threads' = [threads EXCEPT ![t] =
                    [IdleThread EXCEPT !.op = "get_parsers", !.use_cache = use_cache,
                                       !.rv = RvList(_PARSER_CACHE)]]
            /\ UNCHANGED _PARSER_NAME_CACHE
       ELSE
            /\ threads' = [threads EXCEPT ![t] =
                    [IdleThread EXCEPT !.pc = "scan", !.op = "get_parsers",
                                       !.use_cache = use_cache]]
            /\ _PARSER_NAME_CACHE' = IF use_cache THEN _PARSER_NAME_CACHE ELSE NoNameCache
    /\ UNCHANGED <<installed, _PARSER_CACHE, next_id, changes>>
    /\ UNCHANGED <<hnap, motorola, header, sanitizer>>

\* Discovery: a new list is filled from the modules present, in the order
\* os.listdir yields the directories, and sorted. It is local to the thread.
GetParsersScan(t) ==
    /\ threads[t].pc = "scan"
    /\ next_id <= MaxDiscoveries
    /\ \E order \in DirOrders :
            threads' = [threads EXCEPT ![t].pc = "store", ![t].scanned = TRUE,
                ![t].parsers = ListObject(next_id, Discovered[installed][order], installed)]
    /\ next_id' = next_id + 1
    /\ UNCHANGED <<installed, _PARSER_CACHE, _PARSER_NAME_CACHE, changes>>
    /\ UNCHANGED <<hnap, motorola, header, sanitizer>>

\* A return of the freshly built list that leaves _PARSER_CACHE as it was once
\* it holds a list.
GetParsersStore_KeepCache(t) ==
    /\ threads[t].pc = "store"
    /\ _PARSER_CACHE' = IF _PARSER_CACHE.id # 0 THEN _PARSER_CACHE ELSE threads[t].parsers
    /\ threads' = [threads EXCEPT ![t] =
            IF threads[t].nested
            THEN [threads[t] EXCEPT !.pc = "fill", !.i = 1]
            ELSE [threads[t] EXCEPT !.pc = "idle", !.parsers = NoList,
                                    !.rv = RvList(threads[t].parsers)]]
    /\ UNCHANGED <<installed, _PARSER_NAME_CACHE, next_id, changes>>
    /\ UNCHANGED <<hnap, motorola, header, sanitizer>>

\* _PARSER_CACHE = parsers; return parsers (to the caller, or to the loop of
\* get_parser_by_name).
GetParsersStore(t) ==
    /\ threads[t].pc = "store"
    /\ _PARSER_CACHE' = threads[t].parsers
    /\ threads' = [threads EXCEPT ![t] =
            IF threads[t].nested
            THEN [threads[t] EXCEPT !.pc = "fill", !.i = 1]
            ELSE [threads[t] EXCEPT !.pc = "idle", !.parsers = NoList,
                                    !.rv = RvList(threads[t].parsers)]]
    /\ UNCHANGED <<installed, _PARSER_NAME_CACHE, next_id, changes>>
    /\ UNCHANGED <<hnap, motorola, header, sanitizer>>

\* A lookup that finds nothing.
NameLookup_Absent(name) == RvClass(Null)

\* The lookup that ends get_parser_by_name: an AttributeError when the index
\* is None by then, else the class under the name, or None.
NameLookup(name) ==
    IF _PARSER_NAME_CACHE.none THEN RvRaised
    ELSE RvClass(DictGet(_PARSER_NAME_CACHE.dict, name))

\* get_parser_by_name(parser_name) up to its call of get_parsers: with an index
\* it answers at once; without, it binds the index to an empty dict first.
get_parser_by_name(t, parser_name) ==
    /\ threads[t].pc = "idle"
    /\ IF _PARSER_NAME_CACHE.none THEN
            /\ _PARSER_NAME_CACHE' = [none |-> FALSE, dict |-> EmptyDict]
            /\ threads' = [threads EXCEPT ![t] =
                    [IdleThread EXCEPT !.pc = "call", !.op = "get_parser_by_name",
                                       !.name = parser_name, !.nested = TRUE]]
       ELSE
            /\ threads' = [threads EXCEPT ![t] =
                    [IdleThread EXCEPT !.op = "get_parser_by_name", !.name = parser_name,
                                       !.rv = NameLookup(parser_name)]]
            /\ UNCHANGED _PARSER_NAME_CACHE
    /\ UNCHANGED <<installed, _PARSER_CACHE, next_id, changes>>
    /\ UNCHANGED <<hnap, motorola, header, sanitizer>>

\* The get_parsers() call inside get_parser_by_name (use_cache defaults to
\* True): the cached list, or discovery.
NameIndexGetParsers(t) ==
    /\ threads[t].pc = "call"
    /\ threads' = [threads EXCEPT ![t] =
            IF _PARSER_CACHE.id # 0
            THEN [threads[t] EXCEPT !.pc = "fill", !.parsers = _PARSER_CACHE, !.i = 1]
            ELSE [threads[t] EXCEPT !.pc = "scan"]]
    /\ UNCHANGED <<installed, _PARSER_CACHE, _PARSER_NAME_CACHE, next_id, changes>>
    /\ UNCHANGED <<hnap, motorola, header, sanitizer>>

\* One turn of "for parser_class in get_parsers()": the class is stored under its
\* name in whatever _PARSER_NAME_CACHE is bound to now (a TypeError when that is
\* None); after the last turn the name is looked up and the call returns.
NameIndexFill(t) ==
    LET self == threads[t]
        cls == self.parsers.items[self.i]
    IN
    /\ self.pc = "fill"
    /\ IF self.i <= Len(self.parsers.items) /\ ~_PARSER_NAME_CACHE.none THEN
            /\ _PARSER_NAME_CACHE' =
                    [_PARSER_NAME_CACHE EXCEPT
                        !.dict = DictSet(@, ParserClass[cls].name, cls)]
            /\ threads' = [threads EXCEPT ![t].i = self.i + 1]
       ELSE
            /\ threads' = [threads EXCEPT ![t] =
                    [self EXCEPT !.pc = "idle", !.parsers = NoList, !.i = 0,
                                 !.rv = NameLookup(self.name)]]
            /\ UNCHANGED _PARSER_NAME_CACHE
    /\ UNCHANGED <<installed, _PARSER_CACHE, next_id, changes>>
    /\ UNCHANGED <<hnap, motorola, header, sanitizer>>

\* A parser module is added to the parsers directory, or removed from it.
ModulesChange(m) ==
    /\ changes < MaxChanges
    /\ changes' = changes + 1
    /\ installed' = IF m \in installed THEN installed \ {m} ELSE installed \cup {m}
    /\ UNCHANGED <<_PARSER_CACHE, _PARSER_NAME_CACHE, threads, next_id>>
    /\ UNCHANGED <<hnap, motorola, header, sanitizer>>

\* The registry used from one thread, over any set of parser modules.
InitRegistry ==
    /\ installed \in SUBSET ModuleNames
    /\ RegistryInit
    /\ HnapInit
    /\ MotorolaInit
    /\ HeaderInit
    /\ SanitizerInit

NextRegistry ==
    \/ \E t \in OneThread, use_cache \in BOOLEAN : get_parsers(t, use_cache)
    \/ \E t \in OneThread : GetParsersScan(t)
    \/ \E t \in OneThread : GetParsersStore(t)
    \/ \E t \in OneThread, n \in LookupNames : get_parser_by_name(t, n)
    \/ \E t \in OneThread : NameIndexGetParsers(t)
    \/ \E t \in OneThread : NameIndexFill(t)
    \/ \E m \in HotModules : ModulesChange(m)

SpecRegistry == InitRegistry /\ [][NextRegistry]_vars

\* The registry called from two threads at once, starting from the parser
\* modules of src/.
InitConcurrent ==
    /\ installed = ShippedModules
    /\ RegistryInit
    /\ HnapInit
    /\ MotorolaInit
    /\ HeaderInit
    /\ SanitizerInit

NextConcurrent ==
    \/ \E t \in Threads, use_cache \in BOOLEAN : get_parsers(t, use_cache)
    \/ \E t \in Threads : GetParsersScan(t)
    \/ \E t \in Threads : GetParsersStore(t)
    \/ \E t \in Threads, n \in LookupNames : get_parser_by_name(t, n)
    \/ \E t \in Threads : NameIndexGetParsers(t)
    \/ \E t \in Threads : NameIndexFill(t)
    \/ \E m \in HotModules : ModulesChange(m)

SpecConcurrent == InitConcurrent /\ [][NextConcurrent]_vars

\* ------------------------------------------- polling a Motorola modem
\* One operation on one modem: a poll (the answer is fetched, then parsed) or a
\* restart.
\* The modem answers the HNAP actions of the poll.
HnapFetch(shape, seconds) ==
    /\ fetched = "none"
    /\ restart_pc = "idle" /\ http = <<>>
    /\ fetched' = "hnap"
    /\ uptime' = seconds
    /\ hnap_data' = HnapAnswer(shape, seconds)
    /\ html' = NoHtml
    /\ parsed' = NoData
    /\ UNCHANGED <<http, restart_pc, restart_ret>>

\* _parse_with_hnap once hnap_data is filled: the three extractions and the
\* dictionary returned.
ParseHnapData ==
    /\ fetched = "hnap"
    /\ parsed.parser = "none"
    /\ parsed' = [parser |-> "MotorolaMB8600HnapParser",
                  downstream |-> _parse_downstream_from_hnap(hnap_data),
                  upstream |-> _parse_upstream_from_hnap(hnap_data),
                  system_info |-> _parse_system_info_from_hnap(hnap_data)]
    /\ UNCHANGED <<uptime, fetched, hnap_data, html, http, restart_pc, restart_ret>>

\* An MB7621 answers the request for its status page.
HtmlFetch(shape, seconds) ==
    /\ fetched = "none"
    /\ restart_pc = "idle" /\ http = <<>>
    /\ fetched' = "html"
    /\ uptime' = seconds
    /\ html' = HtmlPage(shape, seconds)
    /\ hnap_data' = NoHnapData
    /\ parsed' = NoData
    /\ UNCHANGED <<http, restart_pc, restart_ret>>

\* MotorolaMB7621Parser.parse(soup), inherited from MotorolaGenericParser.
ParseHtml ==
    /\ fetched = "html"
    /\ parsed.parser = "none"
    /\ parsed' = MotorolaGenericParse(html)
    /\ UNCHANGED <<uptime, fetched, hnap_data, html, http, restart_pc, restart_ret>>

\* ------------------ MotorolaGenericParser.restart (motorola/generic.py)
\* What the modem may answer to a request of restart: an HTTP status, or the
\* exception the session raises.
PostAnswers == {"200", "500", "ConnectionResetError", "Timeout"}

\* The restart form.
restart_data ==
    [UserId |-> "", OldPassword |-> "", NewUserId |-> "", Password |-> "",
     PasswordReEnter |-> "", MotoSecurityAction |-> "1"]

\* session.get(url, timeout=10) / session.post(url, data=data, timeout=10)
HttpRequest(method, path, data) ==
    [method |-> method, path |-> path, data |-> data, timeout |-> 10,
     answer |-> "pending"]

NoFormData ==
    [UserId |-> "", OldPassword |-> "", NewUserId |-> "", Password |-> "",
     PasswordReEnter |-> "", MotoSecurityAction |-> ""]

\* A restart that takes a connection reset for a failure.
RestartResult_ResetFails(answer) ==
    IF answer = "200" THEN "True" ELSE "False"

\* What restart returns for the answer to its POST: the modem going down in the
\* middle of the exchange is the restart succeeding.
RestartResult(answer) ==
    IF answer \in {"200", "ConnectionResetError"} THEN "True" ELSE "False"

\* restart(session, base_url) is called: the security page is requested.
RestartCall ==
    /\ restart_pc = "idle"
    /\ fetched = "none"
    /\ http = <<>>
    /\ http' = <<HttpRequest("GET", "/MotoSecurity.asp", NoFormData)>>
    /\ restart_pc' = "get"
    /\ UNCHANGED <<uptime, fetched, hnap_data, html, parsed, restart_ret>>

\* The security page arrives and the restart form is posted.
RestartGetReply ==
    /\ restart_pc = "get"
    /\ http' = Append([http EXCEPT ![1].answer = "200"],
                      HttpRequest("POST", "/goform/MotoSecurity", restart_data))
    /\ restart_pc' = "post"
    /\ UNCHANGED <<uptime, fetched, hnap_data, html, parsed, restart_ret>>

\* The POST is answered, or fails, and restart returns.
RestartPostReply(answer) ==
    /\ restart_pc = "post"
    /\ http' = [http EXCEPT ![2].answer = answer]
    /\ restart_pc' = "idle"
    /\ restart_ret' = RestartResult(answer)
    /\ UNCHANGED <<uptime, fetched, hnap_data, html, parsed>>

NextMotorola ==
    \/ (\E shape \in Shapes(Len(DownstreamEntries)), seconds \in UptimeSeconds :
            HnapFetch(shape, seconds)) /\ UNCHANGED <<hnap, registry, header, sanitizer>>
    \/ ParseHnapData /\ UNCHANGED <<hnap, registry, header, sanitizer>>
    \/ (\E shape \in Shapes(Len(DownstreamRows)), seconds \in UptimeSeconds :
            HtmlFetch(shape, seconds)) /\ UNCHANGED <<hnap, registry, header, sanitizer>>
    \/ ParseHtml /\ UNCHANGED <<hnap, registry, header, sanitizer>>
    \/ RestartCall /\ UNCHANGED <<hnap, registry, header, sanitizer>>
    \/ RestartGetReply /\ UNCHANGED <<hnap, registry, header, sanitizer>>
    \/ (\E answer \in PostAnswers : RestartPostReply(answer)) /\ UNCHANGED <<hnap, registry, header, sanitizer>>

SpecMotorola == Init /\ [][NextMotorola]_vars

\* -------------------------------------------------------- HNAP_AUTH header
\* Times in milliseconds exceed the integers TLC computes with: an integer is
\* kept as two limbs, hi * Limb + lo.
Limb == 1000000
Big(hi, lo) == [hi |-> hi, lo |-> lo]
BigSucc(a) == IF a.lo + 1 = Limb THEN Big(a.hi + 1, 0) ELSE Big(a.hi, a.lo + 1)

\* a % m for a modulus that is a multiple of Limb.
BigMod(a, m) == Big(a.hi % m.hi, a.lo)

\* str(a)
BigStr(a) ==
    IF a.hi = 0 THEN str(a.lo)
    ELSE str(a.hi) \o SubSeq(str(Limb + a.lo), 2, 7)

\* time.time() * 1000: whole milliseconds and tenths of a millisecond.
Clock(hi, lo, tenths) == [ms |-> Big(hi, lo), tenths |-> tenths]

\* The times at which a header is built: the epoch, the two sides of 2^32 ms,
\* November 2026, the two sides of 2 * 10^12 ms, and the year 2100.
Clocks ==
    {Clock(t[1], t[2], tenths) :
        t \in {<<0, 0>>, <<4294, 967295>>, <<4294, 967296>>, <<1793577, 600000>>,
               <<1999999, 999999>>, <<2000000, 0>>, <<4102444, 800000>>},
        tenths \in {0, 5, 7}}

\* int(x): the fraction is dropped.
Truncate(t) == t.ms

\* round(x): to the nearest integer, a tie going to the even one.
Round(t) ==
    IF t.tenths > 5 \/ (t.tenths = 5 /\ t.ms.lo % 2 = 1) THEN BigSucc(t.ms) ELSE t.ms

\* The literal 2000000000000 of _get_hnap_auth and TIME_MODULO of
\* _send_soap_action.
JsonTimeModulo == Big(2000000, 0)
TIME_MODULO == Big(2000000, 0)

\* namespace / auth_config.soap_action_namespace
namespace == "http://purenetworks.com/HNAP1/"

\* soap_action_uri = f'"{namespace}{action}"'
soap_action_uri(action) == "\"" \o namespace \o action \o "\""

\* A timestamp that is not reduced.
JsonTimestamp_Unreduced(t) == BigStr(Truncate(t))

\* timestamp = str(int(time.time() * 1000) % 2000000000000)
JsonTimestamp(t) == BigStr(BigMod(Truncate(t), JsonTimeModulo))

\* current_time = str(round(time.time() * 1000) % TIME_MODULO)
MbTimestamp(t) == BigStr(BigMod(Round(t), TIME_MODULO))

\* HNAPJsonRequestBuilder._get_hnap_auth(action) with _private_key = key
_get_hnap_auth(key, action, t) ==
    _hmac_md5(SignKey(key), JsonTimestamp(t) \o soap_action_uri(action))
        \o " " \o JsonTimestamp(t)

\* The HNAP_AUTH header of MotorolaMB8600HnapParser._send_soap_action
MbHnapAuth(key, action, t) ==
    _hmac_md5_upper(key, MbTimestamp(t) \o soap_action_uri(action))
        \o " " \o MbTimestamp(t)

\* Keys a header is signed with: none yet, and a key derived by a login.
HeaderKeys == {Null, "H(p1pw|c1)"}
HeaderActions == {"Login", "GetMultipleHNAPs"}

\* The builder builds the header of a request.
GetHnapAuth(key, action, t) ==
    /\ now' = t
    /\ hnap_auth' = [by |-> "json", key |-> SignKey(key), action |-> action,
                     value |-> _get_hnap_auth(key, action, t)]

\* The MB8600 parser builds the header of a request.
SendSoapActionAuth(key, action, t) ==
    /\ now' = t
    /\ hnap_auth' = [by |-> "mb8600", key |-> key, action |-> action,
                     value |-> MbHnapAuth(key, action, t)]

NextHeader ==
    \/ (\E key \in HeaderKeys, action \in HeaderActions, t \in Clocks :
            GetHnapAuth(key, action, t)) /\ UNCHANGED <<hnap, registry, motorola, sanitizer>>
    \/ (\E key \in HeaderKeys, action \in HeaderActions, t \in Clocks :
            SendSoapActionAuth(SignKey(key), action, t))
       /\ UNCHANGED <<hnap, registry, motorola, sanitizer>>

SpecHeader == Init /\ [][NextHeader]_vars

\* ------------------------------------------------------------- HAR sanitizer
\* JSON data: a string, a number, an object (its members in order) or an array
\* (its items as members with an empty key).
Member(key, value) == [key |-> key, value |-> value]
NoJson == [t |-> "none", s |-> "", members |-> <<>>]
JString(s) == [t |-> "string", s |-> s, members |-> <<>>]
JNumber(s) == [t |-> "number", s |-> s, members |-> <<>>]
JObject(members) == [t |-> "object", s |-> "", members |-> members]
JArray(items) ==
    [t |-> "array", s |-> "", members |-> [i \in DOMAIN items |-> Member("", items[i])]]

\* The values of a HAR structure: None, a string that is not JSON text, a JSON
\* text (the data json.loads gives for it, and whether it is laid out as the
\* capture wrote it or as json.dumps writes it), or a reference to a dict or a
\* list of the heap.
NoneValue == [t |-> "None", ref |-> 0, s |-> "", json |-> NoJson]
Missing == [t |-> "missing", ref |-> 0, s |-> "", json |-> NoJson]
Str(s) == [t |-> "str", ref |-> 0, s |-> s, json |-> NoJson]
JsonText(data, layout) == [t |-> "json", ref |-> 0, s |-> layout, json |-> data]
Ref(id) == [t |-> "ref", ref |-> id, s |-> "", json |-> NoJson]

\* json.dumps(data)
dumps(data) == JsonText(data, "dumps")

\* The objects of the heap: a dict (its items in order) and a list.
Dict(items) == [kind |-> "dict", items |-> items]
List(values) ==
    [kind |-> "list", items |-> [i \in DOMAIN values |-> Member("", values[i])]]

\* key in d, d[key] and d[key] = value for a dict d.
Has(d, key) == \E i \in DOMAIN d.items : d.items[i].key = key
Get(d, key) ==
    IF Has(d, key)
    THEN d.items[CHOOSE i \in DOMAIN d.items : d.items[i].key = key].value
    ELSE Missing
Set(d, key, value) ==
    IF Has(d, key)
    THEN [d EXCEPT !.items = [i \in DOMAIN d.items |->
                                 IF d.items[i].key = key THEN Member(key, value)
                                 ELSE d.items[i]]]
    ELSE [d EXCEPT !.items = Append(d.items, Member(key, value))]

\* isinstance(value, dict), isinstance(value, list), bool(value)
IsDict(h, value) == value.t = "ref" /\ h[value.ref].kind = "dict"
IsList(h, value) == value.t = "ref" /\ h[value.ref].kind = "list"
Truthy(h, value) ==
    CASE value.t \in {"None", "missing"} -> FALSE
      [] value.t = "str" -> value.s # ""
      [] value.t = "json" -> TRUE
      [] value.t = "ref" -> h[value.ref].items # <<>>

\* Body(value), the value computed once.
With(value, Body(_)) == CHOOSE result \in {Body(v) : v \in {value}} : TRUE

\* The objects reachable from a value.
RECURSIVE Reach(_, _, _)
Reach(h, frontier, seen) ==
    IF frontier = {} THEN seen
    ELSE LET next == {r \in 1..Len(h) :
                         \E i \in frontier : \E k \in DOMAIN h[i].items :
                             h[i].items[k].value = Ref(r)}
         IN  Reach(h, next \ (seen \cup frontier), seen \cup frontier)

Reachable(h, value) == IF value.t = "ref" THEN Reach(h, {value.ref}, {}) ELSE {}

\* copy.copy(value): a new object holding the same items.
deepcopy_Shallow(h, value) ==
    IF value.t = "ref"
    THEN [heap |-> Append(h, h[value.ref]), value |-> Ref(Len(h) + 1)]
    ELSE [heap |-> h, value |-> value]

\* copy.deepcopy(value): every object reachable from the value is built anew.
deepcopy(h, value) ==
    With(Reachable(h, value), LAMBDA old :
        LET new(i) == Len(h) + Cardinality({j \in old : j <= i})
            copy(v) == IF v.t = "ref" THEN Ref(new(v.ref)) ELSE v
            object(i) ==
                [h[i] EXCEPT !.items = [k \in DOMAIN h[i].items |->
                                           Member(h[i].items[k].key,
                                                  copy(h[i].items[k].value))]]
        IN  [heap |-> h \o [n \in 1..Cardinality(old) |->
                               object(CHOOSE i \in old : new(i) = Len(h) + n)],
             value |-> copy(value)])

\* str.lower()
UpperCase == "ABCDEFGHIJKLMNOPQRSTUVWXYZ"
LowerCase == "abcdefghijklmnopqrstuvwxyz"
RECURSIVE lower(_)
lower(s) ==
    IF s = "" THEN ""
    ELSE LET c == SubSeq(s, 1, 1)
             at == find(UpperCase, c)
         IN  (IF at = 0 THEN c ELSE SubSeq(LowerCase, at, at))
             \o lower(SubSeq(s, 2, Len(s)))

SENSITIVE_FIELD_PATTERNS ==
    {"password", "passwd", "pwd", "pass", "secret", "token", "key", "auth",
     "credential", "apikey", "api_key"}

\* bool(_SENSITIVE_FIELD_RE.search(field_name)), the patterns joined by "|" and
\* matched regardless of case.
is_sensitive_field(field_name) ==
    \E pattern \in SENSITIVE_FIELD_PATTERNS : Contains(lower(field_name), pattern)

SENSITIVE_HEADERS ==
    {"authorization", "cookie", "set-cookie", "x-auth-token", "x-api-key",
     "x-session-id", "x-csrf-token"}

Redacted == "[REDACTED]"

\* re.sub(r"([^=;\s]+)=([^;]*)", redact_cookie, value) for a value made of
\* name=value pairs separated by ";": each value is replaced.
RECURSIVE redact_cookies(_)
redact_cookies(pairs) ==
    IF pairs = <<>> THEN <<>>
    ELSE LET pair == Head(pairs)
             eq == find(pair, "=")
         IN  <<IF eq > 1 /\ SubSeq(pair, eq - 1, eq - 1) # " "
               THEN SubSeq(pair, 1, eq) \o Redacted ELSE pair>>
             \o redact_cookies(Tail(pairs))

sanitize_header_value(name, value) ==
    IF lower(name) \in SENSITIVE_HEADERS THEN
        IF lower(name) \in {"cookie", "set-cookie"}
        THEN join(redact_cookies(split(value, ";")), ";")
        ELSE Redacted
    ELSE value

\* The pairs of _sanitize_form_urlencoded.
RECURSIVE redact_pairs(_)
redact_pairs(pairs) ==
    IF pairs = <<>> THEN <<>>
    ELSE LET pair == Head(pairs)
             eq == find(pair, "=")
             key == SubSeq(pair, 1, eq - 1)
         IN  <<IF eq = 0 THEN pair
               ELSE IF is_sensitive_field(key) THEN key \o "=" \o Redacted
               ELSE pair>>
             \o redact_pairs(Tail(pairs))

_sanitize_form_urlencoded(text) == join(redact_pairs(split(text, "&")), "&")

\* _sanitize_json_text(text): the sensitive keys of the top-level object are
\* redacted; text that json.loads rejects is returned as it is.
_sanitize_json_text(text) ==
    IF text.t # "json" THEN text
    ELSE LET data == text.json
         IN  dumps(IF data.t = "object"
                   THEN JObject([i \in DOMAIN data.members |->
                            IF is_sensitive_field(data.members[i].key)
                            THEN Member(data.members[i].key, JString(Redacted))
                            ELSE data.members[i]])
                   ELSE data)

RECURSIVE _sanitize_json_recursive(_)
_sanitize_json_recursive(data) ==
    IF data.t \in {"object", "array"}
    THEN [data EXCEPT !.members = [i \in DOMAIN data.members |->
              LET m == data.members[i]
              IN  IF data.t = "object" /\ is_sensitive_field(m.key)
                                       /\ m.value.t = "string"
                  THEN Member(m.key, JString(Redacted))
                  ELSE Member(m.key, _sanitize_json_recursive(m.value))]]
    ELSE data

\* Of sanitize_html, the rule the texts of this model meet: a MAC address
\* (six pairs of hexadecimal digits separated by ":" or "-") becomes
\* XX:XX:XX:XX:XX:XX.
HexDigits == "0123456789ABCDEFabcdef"
IsMacAddress(s) ==
    /\ Len(s) = 17
    /\ \A i \in 1..17 :
          IF i % 3 = 0 THEN SubSeq(s, i, i) \in {":", "-"}
          ELSE find(HexDigits, SubSeq(s, i, i)) # 0

RECURSIVE sanitize_html(_)
sanitize_html(text) ==
    IF text = "" THEN ""
    ELSE IF Len(text) >= 17 /\ IsMacAddress(SubSeq(text, 1, 17))
    THEN "XX:XX:XX:XX:XX:XX" \o sanitize_html(SubSeq(text, 18, Len(text)))
    ELSE SubSeq(text, 1, 1) \o sanitize_html(SubSeq(text, 2, Len(text)))

\* for param in params: a dict with a sensitive "name" gets the value
\* "[REDACTED]" (the params of postData and the queryString of a request).
RECURSIVE RedactParams(_, _, _)
RedactParams(h, list, i) ==
    IF i > Len(h[list].items) THEN h
    ELSE LET param == h[list].items[i].value
             hit == /\ IsDict(h, param)
                    /\ Has(h[param.ref], "name")
                    /\ is_sensitive_field(Get(h[param.ref], "name").s)
         IN  With(IF hit THEN [h EXCEPT ![param.ref] = Set(@, "value", Str(Redacted))]
                  ELSE h,
                  LAMBDA h1 : RedactParams(h1, list, i + 1))

\* The text of a copied postData, sanitized by its mimeType.
PostDataText(h, result) ==
    LET text == Get(h[result], "text")
        mime_type == IF Has(h[result], "mimeType")
                     THEN Get(h[result], "mimeType").s ELSE ""
    IN  IF ~Truthy(h, text) THEN h
        ELSE IF Contains(mime_type, "application/x-www-form-urlencoded")
                /\ text.t = "str"
        THEN [h EXCEPT ![result] = Set(@, "text", Str(_sanitize_form_urlencoded(text.s)))]
        ELSE IF Contains(mime_type, "application/json")
        THEN [h EXCEPT ![result] = Set(@, "text", _sanitize_json_text(text))]
        ELSE h

\* sanitize_post_data(post_data): the heap after the call and the value
\* returned.
sanitize_post_data(h, post_data) ==
    IF ~Truthy(h, post_data) THEN [heap |-> h, value |-> post_data]
    ELSE With(deepcopy(h, post_data), LAMBDA copied :
         With(LET params == Get(copied.heap[copied.value.ref], "params")
              IN  IF IsList(copied.heap, params)
                  THEN RedactParams(copied.heap, params.ref, 1) ELSE copied.heap,
              LAMBDA h1 :
                  [heap |-> PostDataText(h1, copied.value.ref), value |-> copied.value]))

\* _sanitize_headers(headers), in place.
RECURSIVE _sanitize_headers(_, _, _)
_sanitize_headers(h, headers, i) ==
    IF i > Len(h[headers].items) THEN h
    ELSE LET header_ == h[headers].items[i].value
             hit == /\ IsDict(h, header_)
                    /\ Has(h[header_.ref], "name")
                    /\ Has(h[header_.ref], "value")
         IN  With(IF hit
                  THEN [h EXCEPT ![header_.ref] =
                           Set(@, "value",
                               Str(sanitize_header_value(Get(@, "name").s,
                                                         Get(@, "value").s)))]
                  ELSE h,
                  LAMBDA h1 : _sanitize_headers(h1, headers, i + 1))

\* _sanitize_request(req), in place: the postData is replaced by what
\* sanitize_post_data returns for it.
_sanitize_request(h, req) ==
    With(LET headers == Get(h[req], "headers")
         IN  IF IsList(h, headers) THEN _sanitize_headers(h, headers.ref, 1) ELSE h,
         LAMBDA h1 :
    With(IF Has(h1[req], "postData")
         THEN With(sanitize_post_data(h1, Get(h1[req], "postData")), LAMBDA posted :
                   [posted.heap EXCEPT ![req] = Set(@, "postData", posted.value)])
         ELSE h1,
         LAMBDA h2 :
             LET queryString == Get(h2[req], "queryString")
             IN  IF IsList(h2, queryString)
                 THEN RedactParams(h2, queryString.ref, 1) ELSE h2))

\* _sanitize_response_content(content), in place.
_sanitize_response_content(h, content) ==
    LET text == Get(h[content], "text")
        mime_type == IF Has(h[content], "mimeType")
                     THEN Get(h[content], "mimeType").s ELSE ""
    IN  IF ~Truthy(h, text) THEN h
        ELSE IF (Contains(mime_type, "text/html") \/ Contains(mime_type, "text/xml"))
                /\ text.t = "str"
        THEN [h EXCEPT ![content] = Set(@, "text", Str(sanitize_html(text.s)))]
        ELSE IF Contains(mime_type, "application/json") /\ text.t = "json"
        THEN [h EXCEPT ![content] =
                 Set(@, "text", dumps(_sanitize_json_recursive(text.json)))]
        ELSE h

\* _sanitize_response(resp), in place.
_sanitize_response(h, resp) ==
    With(LET headers == Get(h[resp], "headers")
         IN  IF IsList(h, headers) THEN _sanitize_headers(h, headers.ref, 1) ELSE h,
         LAMBDA h1 :
             LET content == Get(h1[resp], "content")
             IN  IF IsDict(h1, content)
                 THEN _sanitize_response_content(h1, content.ref) ELSE h1)

\* sanitize_entry(entry): the heap after the call and the entry returned.
sanitize_entry(h, entry) ==
    With(deepcopy(h, entry), LAMBDA copied :
    With(IF Has(copied.heap[copied.value.ref], "request")
         THEN _sanitize_request(copied.heap,
                                Get(copied.heap[copied.value.ref], "request").ref)
         ELSE copied.heap,
         LAMBDA h1 :
             [heap |-> IF Has(h1[copied.value.ref], "response")
                       THEN _sanitize_response(h1, Get(h1[copied.value.ref], "response").ref)
                       ELSE h1,
              value |-> copied.value]))

\* [sanitize_entry(entry) for entry in log["entries"]]: the heap after the
\* calls and the entries they returned.
RECURSIVE SanitizeEntries(_, _, _, _)
SanitizeEntries(h, entries, i, done) ==
    IF i > Len(h[entries].items) THEN [heap |-> h, values |-> done]
    ELSE With(sanitize_entry(h, h[entries].items[i].value), LAMBDA one :
              SanitizeEntries(one.heap, entries, i + 1, Append(done, one.value)))

\* for page in log["pages"]: page["title"] = sanitize_html(page["title"])
RECURSIVE SanitizePages(_, _, _)
SanitizePages(h, pages, i) ==
    IF i > Len(h[pages].items) THEN h
    ELSE LET page == h[pages].items[i].value
             hit == IsDict(h, page) /\ Has(h[page.ref], "title")
         IN  With(IF hit
                  THEN [h EXCEPT ![page.ref] =
                           Set(@, "title", Str(sanitize_html(Get(@, "title").s)))]
                  ELSE h,
                  LAMBDA h1 : SanitizePages(h1, pages, i + 1))

\* sanitize_har on the copy, for a HAR with a "log": the entries are replaced
\* by a new list of sanitized entries, the page titles are sanitized in place.
SanitizeLog(h, log) ==
    With(LET entries == Get(h[log], "entries")
         IN  IF IsList(h, entries)
             THEN With(SanitizeEntries(h, entries.ref, 1, <<>>), LAMBDA listed :
                       [Append(listed.heap, List(listed.values))
                           EXCEPT ![log] = Set(@, "entries", Ref(Len(listed.heap) + 1))])
             ELSE h,
         LAMBDA h1 :
             LET pages == Get(h1[log], "pages")
             IN  IF IsList(h1, pages) THEN SanitizePages(h1, pages.ref, 1) ELSE h1)

\* sanitize_har(har_data): the heap after the call and the HAR returned.
sanitize_har(h, har_data) ==
    With(deepcopy(h, har_data), LAMBDA copied :
         IF ~Has(copied.heap[copied.value.ref], "log") THEN copied
         ELSE [heap |-> SanitizeLog(copied.heap,
                                    Get(copied.heap[copied.value.ref], "log").ref),
               value |-> copied.value])

\* The bodies of the captured requests: an HNAP Login request with the
\* LoginPassword inside the Login object, a JSON object with a password at
\* the top and one below, a form, text that is not JSON, and a request with
\* no body or an empty one.
PostBodies == {"hnap_login", "json_password", "form", "not_json", "none", "empty"}

PostData(body) ==
    CASE body = "hnap_login" ->
            Dict(<<Member("mimeType", Str("application/json")),
                   Member("text", JsonText(JObject(<<
                       Member("Login", JObject(<<
                           Member("Action", JString("login")),
                           Member("Username", JString("admin")),
                           Member("LoginPassword", JString("H(p1pw|c1)"))>>))>>),
                       "capture")),
                   Member("params", Ref(17))>>)
      [] body = "json_password" ->
            Dict(<<Member("mimeType", Str("application/json; charset=utf-8")),
                   Member("text", JsonText(JObject(<<
                       Member("password", JString("pw")),
                       Member("old", JObject(<<Member("password", JString("x"))>>))>>),
                       "capture"))>>)
      [] body = "form" ->
            Dict(<<Member("mimeType", Str("application/x-www-form-urlencoded")),
                   Member("text", Str("user=admin&password=pw"))>>)
      [] body = "not_json" ->
            Dict(<<Member("mimeType", Str("application/json")),
                   Member("text", Str("not json"))>>)
      [] OTHER -> Dict(<<>>)

\* The bodies of the captured responses.
ContentBodies == {"login_response", "numeric_token", "credentials", "token_list", "html"}

Content(body) ==
    CASE body = "login_response" ->
            Dict(<<Member("mimeType", Str("application/json")),
                   Member("text", JsonText(JObject(<<
                       Member("LoginResponse", JObject(<<
                           Member("Challenge", JString("c1")),
                           Member("PublicKey", JString("p1")),
                           Member("LoginResult", JString("OK"))>>))>>),
                       "capture"))>>)
      [] body = "numeric_token" ->
            Dict(<<Member("mimeType", Str("application/json")),
                   Member("text", JsonText(JObject(<<
                       Member("auth_token", JNumber("12345"))>>), "capture"))>>)
      [] body = "credentials" ->
            Dict(<<Member("mimeType", Str("application/json")),
                   Member("text", JsonText(JObject(<<
                       Member("credentials", JObject(<<
                           Member("user", JString("admin")),
                           Member("pin", JString("1234"))>>))>>), "capture"))>>)
      [] body = "token_list" ->
            Dict(<<Member("mimeType", Str("application/json")),
                   Member("text", JsonText(JArray(<<
                       JObject(<<Member("token", JString("t0k"))>>)>>), "capture"))>>)
      [] OTHER ->
            Dict(<<Member("mimeType", Str("text/html")),
                   Member("text", Str("<td>AA:BB:CC:DD:EE:FF</td>"))>>)

RequestHeaders == {"Cookie", "Authorization", "Accept"}

\* A captured HAR with one entry and one page, as the objects of a heap: the
\* HAR is object 1, its entry object 4, the postData of its request object 16.
Har(has_log, header_name, post_body, content_body) ==
    <<IF has_log THEN Dict(<<Member("log", Ref(2))>>)
      ELSE Dict(<<Member("version", Str("1.2")), Member("entries", Ref(3))>>),
      Dict(<<Member("entries", Ref(3)), Member("pages", Ref(14))>>),
      List(<<Ref(4)>>),
      Dict(<<Member("request", Ref(5)), Member("response", Ref(10))>>),
      Dict(<<Member("method", Str("POST")), Member("headers", Ref(6)),
             Member("postData", IF post_body = "none" THEN NoneValue ELSE Ref(16)),
             Member("queryString", Ref(8))>>),
      List(<<Ref(7)>>),
      Dict(<<Member("name", Str(header_name)), Member("value", Str("uid=u1; lang=en"))>>),
      List(<<Ref(9)>>),
      Dict(<<Member("name", Str("token")), Member("value", Str("t0k"))>>),
      Dict(<<Member("status", Str("200")), Member("headers", Ref(11)),
             Member("content", Ref(13))>>),
      List(<<Ref(12)>>),
      Dict(<<Member("name", Str("Set-Cookie")), Member("value", Str("uid=u1"))>>),
      Content(content_body),
      List(<<Ref(15)>>),
      Dict(<<Member("title", Str("Modem 00-1a-2B-3c-4D-5e"))>>),
      PostData(post_body),
      List(<<Ref(18)>>),
      Dict(<<Member("name", Str("LoginPassword")), Member("value", Str("pw"))>>)>>

Hars ==
    {Har(has_log, header_name, post_body, content_body) :
        has_log \in BOOLEAN, header_name \in RequestHeaders,
        post_body \in PostBodies, content_body \in ContentBodies}

\* The outcome of a call of the sanitizer.
Sanitize(fn, captured, arg, returned) ==
    /\ heap' = returned.heap
    /\ sanitized' = [fn |-> fn, before |-> captured, arg |-> arg,
                     result |-> returned.value]

\* One call of a function of the sanitizer on data just captured.
SanitizeHar(captured) ==
    /\ sanitized.fn = "none"
    /\ \E returned \in {sanitize_har(captured, Ref(1))} :
           Sanitize("sanitize_har", captured, Ref(1), returned)

SanitizeEntry(captured) ==
    /\ sanitized.fn = "none"
    /\ \E returned \in {sanitize_entry(captured, Ref(4))} :
           Sanitize("sanitize_entry", captured, Ref(4), returned)

SanitizePostData(captured) ==
    /\ sanitized.fn = "none"
    /\ \E post_data \in {Get(captured[5], "postData")} :
           \E returned \in {sanitize_post_data(captured, post_data)} :
               Sanitize("sanitize_post_data", captured, post_data, returned)

NextSanitizer ==
    \/ (\E captured \in Hars : SanitizeHar(captured))
       /\ UNCHANGED <<hnap, registry, motorola, header>>
    \/ (\E captured \in Hars : SanitizeEntry(captured))
       /\ UNCHANGED <<hnap, registry, motorola, header>>
    \/ (\E captured \in Hars : SanitizePostData(captured))
       /\ UNCHANGED <<hnap, registry, motorola, header>>

SpecSanitizer == Init /\ [][NextSanitizer]_vars

\* ------------------------------------------------------------------ claims

\* A login call (of the builder or of the MB8600 parser) is in progress or was
\* the last call.
IsLogin == frame.call \in {"json_login", "mb_login"}

\* The last call has returned.
Returned(api) == pc = "idle" /\ ret.call = api

\* The challenge response carries all of Challenge, Cookie and PublicKey.
Complete(rep) == ~Falsy(rep.Challenge) /\ ~Falsy(rep.Cookie) /\ ~Falsy(rep.PublicKey)

\* A challenge response on which the login attempt has to fail: a status other
\* than 200, an unparseable body, or a missing or empty field.
BadChallengeResponse(rep) ==
    /\ rep.transport = "ok"
    /\ (rep.status # 200 \/ rep.body # "object" \/ ~Complete(rep))

\* C1: whenever HNAPJsonRequestBuilder.login has returned failure, the stored
\* PrivateKey is None, whatever key was stored before the call.
C1_KeyClearedOnEveryFailure ==
    (Returned("json_login") /\ ~ret.success) => private_key = Null

\* C2: the Action="request" call of every HNAPJsonRequestBuilder.login is signed
\* with "withoutloginkey", whatever calls preceded it on the builder.
C2_ChallengeSignedWithDefaultKey ==
    \A i \in 1..Len(sent) :
        (sent[i].call = "json_login" /\ sent[i].Action = "request")
            => sent[i].key = "withoutloginkey"

\* C3: HNAPJsonRequestBuilder.login returns success if and only if the response
\* to the Action="login" call has status 200 and a JSON body whose LoginResult is
\* "OK" or "SUCCESS".
C3_JsonSuccessIffLoginResultOk ==
    Returned("json_login") =>
        (ret.success <=>
            /\ Len(replies) = 2
            /\ replies[2].transport = "ok"
            /\ replies[2].status = 200
            /\ replies[2].body = "object"
            /\ replies[2].LoginResult \in {"OK", "SUCCESS"})

\* C4: with one builder used on two sessions, no request of a session is signed
\* with a key derived from the other session's challenge, and a request (other
\* than the Action="login" call itself) of a session that never logged in
\* successfully is signed with "withoutloginkey".
C4_KeyStaysWithItsSession ==
    \A i \in 1..Len(sent) :
        /\ sent[i].keyFrom \in {0, sent[i].session}
        /\ (sent[i].session \notin logged_in /\ sent[i].Action # "login")
               => sent[i].key = "withoutloginkey"

\* C5: after a challenge response with a status other than 200, an unparseable
\* body or a missing/empty Challenge, Cookie or PublicKey, the login attempt (of
\* the builder and of the MB8600 parser) has failed, has sent no Action="login"
\* call and has derived no PrivateKey.
C5_BadChallengeStopsLogin ==
    (IsLogin /\ Len(replies) >= 1 /\ BadChallengeResponse(replies[1])) =>
        /\ Len(sent) = 1
        /\ frame.key = Null
        /\ pc = "idle" /\ ~ret.success

\* C6: the LoginPassword of every Action="login" call, of the builder and of the
\* MB8600 parser alike, is HMAC(HMAC(PublicKey + password, Challenge), Challenge)
\* for the PublicKey and Challenge of the challenge response of that attempt.
C6_LoginPasswordDerivation ==
    \A i \in 1..Len(sent) :
        (IsLogin /\ sent[i].Action = "login") =>
            sent[i].LoginPassword =
                _hmac_md5(_hmac_md5(replies[1].PublicKey \o frame.password,
                                    replies[1].Challenge),
                          replies[1].Challenge)

\* C6 witness: scenario A with the model's values: the builder has sent the
\* LoginPassword derived from PublicKey "p1", password "pw", Challenge "c1".
C6_Witness ==
    /\ frame.call = "json_login"
    /\ frame.password = "pw"
    /\ Len(sent) = 2
    /\ sent[2].LoginPassword = "H(H(p1pw|c1)|c1)"

\* C7: every Action="login" call follows a complete challenge response, carries
\* the uid cookie of that response and is signed with the PrivateKey derived from
\* that response.
C7_LoginFollowsCompleteChallenge ==
    \A i \in 1..Len(sent) :
        (IsLogin /\ sent[i].Action = "login") =>
            /\ i = 2 /\ Len(replies) >= 1
            /\ replies[1].transport = "ok" /\ Complete(replies[1])
            /\ sent[i].uid = replies[1].Cookie
            /\ sent[i].key = _hmac_md5(replies[1].PublicKey \o frame.password,
                                       replies[1].Challenge)

\* C8: a login call sends at most two requests, first Action="request" and then
\* at most one Action="login", and a timeout or connection failure at either
\* step ends the call with failure and no further request.
C8_NoRetryInsideLogin ==
    IsLogin =>
        /\ Len(sent) \in {1, 2}
        /\ sent[1].Action = "request"
        /\ Len(sent) = 2 => sent[2].Action = "login"
        /\ \A i \in 1..Len(replies) :
               replies[i].transport # "ok" =>
                   /\ Len(sent) = i /\ Len(replies) = i
                   /\ pc = "idle" /\ ~ret.success /\ ~ret.raised

\* C8 witness: a login whose Action="login" call timed out has returned.
C8_Witness ==
    /\ Returned("mb_login")
    /\ Len(replies) = 2
    /\ replies[2].transport = "timeout"

\* C9: once MotorolaMB8600HnapParser.login has returned failure after its
\* Action="login" call, the session holds no PrivateKey cookie, so the key a
\* following parse reads from that session is "withoutloginkey".
C9_NoStaleKeyAfterFailedMbLogin ==
    (Returned("mb_login") /\ ~ret.success /\ Len(sent) = 2 /\ Complete(replies[1])) =>
        /\ cookies[ret.session].PrivateKey = Null
        /\ MbParseKey(ret.session) = "withoutloginkey"

\* C10: MotorolaMB8600HnapParser.login, after a complete challenge response,
\* returns success if and only if the LoginResult of the response to its
\* Action="login" call is "OK" or "SUCCESS".
C10_MbSuccessIffLoginResultOk ==
    (/\ Returned("mb_login")
     /\ Len(replies) = 2
     /\ Complete(replies[1])
     /\ ~MbSoapRaises(replies[2])) =>
        (ret.success <=> replies[2].LoginResult \in {"OK", "SUCCESS"})

\* C11: when an HNAP request of parse fails with an authentication failure (a 401
\* or 403 status, or an unauthorized / forbidden / session-timeout marker in the
\* error), parse returns empty downstream and upstream lists, _auth_failure set
\* and a _diagnostic_context naming the parser, the error and its category: the
\* dictionary the except branch of parse builds.
C11_AuthFailureFlaggedInParseResult ==
    (/\ Returned("mb_parse")
     /\ \E i \in 1..Len(replies) :
            MbSoapRaises(replies[i]) /\ _is_auth_failure(ErrorIndicators(replies[i])))
    => \E i \in 1..Len(replies) : ret.result = MbParseExcept(ErrorIndicators(replies[i]))

\* ------------------------------------------------- claims on the registry

\* The declared names of the classes of a list.
Names(items) == {ParserClass[items[i]].name : i \in DOMAIN items}

\* Thread t returns from a registry function in this step.
Returns(t, op) ==
    /\ threads'[t].pc = "idle"
    /\ threads'[t].op = op
    /\ threads'[t] # threads[t]

\* Thread t has returned from op and made no call since.
HasReturned(t, op) == threads[t].pc = "idle" /\ threads[t].op = op

\* C12: the name index is invalidated whenever the parser list is rebuilt: when
\* a get_parsers call that performed discovery returns (and no other call is in
\* progress), the name index is unbuilt or is the index of the list just cached.
C12_IndexInvalidatedOnRebuild ==
    [][\A t \in Threads :
          (/\ threads[t].pc = "store"
           /\ ~threads[t].nested
           /\ Returns(t, "get_parsers")
           /\ \A o \in Threads : threads'[o].pc = "idle")
          => \/ _PARSER_NAME_CACHE'.none
             \/ _PARSER_NAME_CACHE'.dict = IndexOf(_PARSER_CACHE'.items)]_vars

\* C13: with concurrent callers no reader observes a partially built cache:
\* get_parser_by_name never returns None for a name that is in the cached list,
\* and get_parsers never returns a list that is incomplete or unsorted.
C13_NoPartialCacheObserved ==
    [][\A t \in Threads :
          /\ (/\ Returns(t, "get_parser_by_name")
              /\ threads'[t].rv.kind = "None"
              /\ _PARSER_CACHE.id # 0)
             => threads'[t].name \notin Names(_PARSER_CACHE.items)
          /\ (Returns(t, "get_parsers") /\ threads'[t].rv.kind = "list")
             => \E order \in DirOrders :
                    threads'[t].rv.list.items = Discover(order, threads'[t].rv.list.from)]_vars

\* Two elements of the list declare the same name.
HasDuplicateNames(items) ==
    \E i, j \in DOMAIN items :
        i # j /\ ParserClass[items[i]].name = ParserClass[items[j]].name

\* C14: parser names are unique across the registry: no call returns normally
\* while the cached list holds two classes declaring the same name.
C14_DuplicateNamesFailLoudly ==
    \A t \in OneThread :
        (threads[t].pc = "idle" /\ threads[t].rv.kind \in {"list", "class", "None"})
        => ~HasDuplicateNames(_PARSER_CACHE.items)

IsGeneric(cls) == Contains(ParserClass[cls].name, "Generic")

\* C15: in the list get_parsers returns, every "Unknown" manufacturer's parser
\* comes after every parser of another manufacturer, and within a manufacturer
\* every "Generic" parser comes after every parser that is not.
C15_UnknownAndGenericLast ==
    \A t \in OneThread :
        (HasReturned(t, "get_parsers") /\ threads[t].rv.kind = "list") =>
            LET items == threads[t].rv.list.items
                man(i) == ParserClass[items[i]].manufacturer
            IN  \A i, j \in DOMAIN items :
                    /\ (man(i) = "Unknown" /\ man(j) # "Unknown") => j < i
                    /\ (man(i) = man(j) /\ IsGeneric(items[i]) /\ ~IsGeneric(items[j]))
                       => j < i

\* C16: in the list get_parsers returns, the parsers of one manufacturer are in
\* descending order of priority (stated for the lists discovered over parser
\* modules of src/ alone).
C16_DescendingPriorityWithinManufacturer ==
    \A t \in OneThread :
        (/\ HasReturned(t, "get_parsers")
         /\ threads[t].rv.kind = "list"
         /\ threads[t].rv.list.from \subseteq ShippedModules) =>
            LET items == threads[t].rv.list.items
            IN  \A i, j \in DOMAIN items :
                    (i < j /\ ParserClass[items[i]].manufacturer
                              = ParserClass[items[j]].manufacturer)
                    => ParserClass[items[i]].priority >= ParserClass[items[j]].priority

\* C17: once the list cache is populated, a get_parsers(use_cache=True) call
\* returns the cached list object itself at once, without a discovery scan; and
\* with a name index built, get_parser_by_name answers from the index at once,
\* without a discovery scan.
C17_WarmCachesAnswerWithoutDiscovery ==
    [][\A t \in OneThread :
          /\ (/\ threads[t].pc = "idle"
              /\ threads'[t] # threads[t]
              /\ threads'[t].op = "get_parsers"
              /\ threads'[t].use_cache
              /\ _PARSER_CACHE.id # 0)
             => /\ threads'[t].pc = "idle"
                /\ threads'[t].rv = RvList(_PARSER_CACHE)
                /\ ~threads'[t].scanned
                /\ next_id' = next_id
                /\ _PARSER_CACHE' = _PARSER_CACHE
          /\ (/\ threads[t].pc = "idle"
              /\ threads'[t] # threads[t]
              /\ threads'[t].op = "get_parser_by_name"
              /\ ~_PARSER_NAME_CACHE.none)
             => /\ threads'[t].pc = "idle"
                /\ threads'[t].rv = RvClass(DictGet(_PARSER_NAME_CACHE.dict, threads'[t].name))
                /\ ~threads'[t].scanned
                /\ next_id' = next_id]_vars

\* A cached answer given although the parsers directory has changed since the
\* list was discovered.
C17_Witness ==
    \E t \in OneThread :
        /\ HasReturned(t, "get_parsers")
        /\ threads[t].use_cache
        /\ ~threads[t].scanned
        /\ threads[t].rv = RvList(_PARSER_CACHE)
        /\ Len(_PARSER_CACHE.items) >= 2
        /\ _PARSER_CACHE.from # installed

\* C18: discovery with cache bypass is idempotent: when get_parsers(use_cache=
\* False) returns a list discovered over the same modules as the list cached by
\* the discovery before it, the two lists have the same names and the same
\* length, they are distinct objects, and the new list is the cached one.
C18_BypassDiscoveryIdempotent ==
    [][\A t \in OneThread :
          (/\ threads[t].pc = "store"
           /\ ~threads[t].nested
           /\ ~threads[t].use_cache
           /\ Returns(t, "get_parsers")
           /\ _PARSER_CACHE.id # 0
           /\ _PARSER_CACHE.from = threads[t].parsers.from)
          => /\ threads'[t].rv.kind = "list"
             /\ Names(threads'[t].rv.list.items) = Names(_PARSER_CACHE.items)
             /\ Len(threads'[t].rv.list.items) = Len(_PARSER_CACHE.items)
             /\ threads'[t].rv.list.id # _PARSER_CACHE.id
             /\ _PARSER_CACHE' = threads'[t].rv.list]_vars

\* The second of two cache-bypassing discoveries over the same modules has
\* returned its list of several parsers.
C18_Witness ==
    \E t \in OneThread :
        /\ HasReturned(t, "get_parsers")
        /\ ~threads[t].use_cache
        /\ threads[t].rv.kind = "list"
        /\ threads[t].rv.list.id >= 2
        /\ Len(threads[t].rv.list.items) >= 2
        /\ threads[t].rv.list = _PARSER_CACHE
        /\ changes = 0

\* C19: get_parser_by_name(n) returns a class of the discovered list whose
\* declared name is n whenever the list has one (for "Motorola MB7621" a class
\* of manufacturer "Motorola" with the DOWNSTREAM_CHANNELS capability), returns
\* None without raising otherwise, and leaves a discovered list cached.
C19_LookupByDeclaredName ==
    \A t \in OneThread :
        HasReturned(t, "get_parser_by_name") =>
            LET n == threads[t].name
                rv == threads[t].rv
            IN  /\ _PARSER_CACHE.id # 0
                /\ IF n \in Names(_PARSER_CACHE.items)
                   THEN /\ rv.kind = "class"
                        /\ \E i \in DOMAIN _PARSER_CACHE.items : _PARSER_CACHE.items[i] = rv.cls
                        /\ ParserClass[rv.cls].name = n
                        /\ n = "Motorola MB7621" =>
                                /\ ParserClass[rv.cls].manufacturer = "Motorola"
                                /\ has_capability(rv.cls, "DOWNSTREAM_CHANNELS")
                   ELSE rv.kind = "None"

\* A lookup that had to run discovery itself and found the MB7621 parser.
C19_Witness ==
    \E t \in OneThread :
        /\ HasReturned(t, "get_parser_by_name")
        /\ threads[t].scanned
        /\ threads[t].name = "Motorola MB7621"
        /\ threads[t].rv = RvClass("MotorolaMB7621Parser")

\* The ModemParser subclasses module m defines.
DefinedIn(m) ==
    {Modules[m].attrs[i].cls : i \in {j \in DOMAIN Modules[m].attrs :
        IsParserSubclass(Modules[m].attrs[j].cls) /\ Modules[m].attrs[j].module = m}}

\* C20: a malformed parser module does not abort discovery: when the import of
\* a module raises, get_parsers still returns a list, and the list holds every
\* parser class defined in the modules whose import does not raise.
C20_MalformedModuleSkipped ==
    \A t \in OneThread :
        (/\ HasReturned(t, "get_parsers")
         /\ threads[t].scanned)
        => LET l == threads[t].rv.list
           IN  /\ threads[t].rv.kind = "list"
               /\ \A m \in l.from :
                      ~ImportRaises(m, l.from) =>
                          \A cls \in DefinedIn(m) : \E i \in DOMAIN l.items : l.items[i] = cls

\* Discovery over a directory that holds the module whose import raises, next
\* to modules sorted before and after it.
C20_Witness ==
    \E t \in OneThread :
        /\ HasReturned(t, "get_parsers")
        /\ threads[t].scanned
        /\ threads[t].rv.kind = "list"
        /\ threads[t].rv.list.from = ShippedModules \cup {"motorola.draft"}
        /\ Len(threads[t].rv.list.items) = 3

C22_RegisteredClassesInstantiable ==
    \A t \in OneThread :
        /\ (HasReturned(t, "get_parsers") /\ threads[t].rv.kind = "list") =>
              \A i \in DOMAIN threads[t].rv.list.items :
                  Instantiable(threads[t].rv.list.items[i])
        /\ (HasReturned(t, "get_parser_by_name") /\ threads[t].rv.kind = "class") =>
              Instantiable(threads[t].rv.cls)

\* ------------------------------------------- claims on channel extraction
\* The entries of a payload: what stands between its "|+|" separators.
Entries(payload) == IF payload = "" THEN <<>> ELSE split(payload, "|+|")

IsInteger(text) == int(text).raises = "none"
IsNumber(text) == float(text).raises = "none" /\ float(text).value.kind = "finite"
IsZero(reading) == reading.kind = "finite" /\ reading.num = 0

\* An entry with the fields its direction requires and a number in each numeric
\* field.
WellFormedDownstream(entry) ==
    LET f == split(entry, "^")
    IN  /\ Len(f) >= 9
        /\ IsInteger(f[1]) /\ IsInteger(f[4]) /\ IsNumber(f[5]) /\ IsNumber(f[6])
        /\ IsNumber(f[7]) /\ IsInteger(f[8]) /\ IsInteger(f[9])

WellFormedUpstream(entry) ==
    LET f == split(entry, "^")
    IN  /\ Len(f) >= 7
        /\ IsInteger(f[1]) /\ IsInteger(f[4]) /\ IsInteger(f[5]) /\ IsNumber(f[6])
        /\ IsNumber(f[7])

\* The well-formed entries of the payloads last fetched, in payload order.
WellFormedDown ==
    SelectSeq(Entries(hnap_data.MotoConnDownstreamChannel), WellFormedDownstream)
WellFormedUp ==
    SelectSeq(Entries(hnap_data.MotoConnUpstreamChannel), WellFormedUpstream)

ParsedBy(parser) == parsed.parser = parser

\* C23: the MB8600 extraction returns exactly the well-formed records of the
\* payload, in payload order: a record with too few fields or with text in a
\* numeric field is left out alone, downstream and upstream.
C23_MalformedRecordOmittedAlone ==
    ParsedBy("MotorolaMB8600HnapParser") =>
        /\ Len(parsed.downstream) = Len(WellFormedDown)
        /\ \A i \in DOMAIN parsed.downstream :
              parsed.downstream[i].channel_id = int(split(WellFormedDown[i], "^")[1]).value
        /\ Len(parsed.upstream) = Len(WellFormedUp)
        /\ \A i \in DOMAIN parsed.upstream :
              parsed.upstream[i].channel_id = int(split(WellFormedUp[i], "^")[1]).value

\* C24: a well-formed downstream record gives fields 1 to 9 as channel_id,
\* lock_status, modulation, ch_id, frequency, power, snr, corrected and
\* uncorrected, the frequency in Hz (MHz times 1,000,000) and a trailing "^"
\* ignored; the record of the docstring gives channel 1, ch_id 20, 543000000 Hz,
\* power 1.4, snr 45.1, corrected 41, uncorrected 0.
C24_DownstreamFieldMapping ==
    ParsedBy("MotorolaMB8600HnapParser") =>
        /\ Len(parsed.downstream) <= Len(WellFormedDown)
        /\ \A i \in DOMAIN parsed.downstream :
              LET f == split(WellFormedDown[i], "^")
                  channel == parsed.downstream[i]
                  mhz == float(f[5]).value
              IN  /\ channel.channel_id = int(f[1]).value
                  /\ channel.lock_status = f[2]
                  /\ channel.modulation = f[3]
                  /\ channel.ch_id = int(f[4]).value
                  /\ channel.frequency * Pow10(mhz.exp) = mhz.num * 1000000
                  /\ channel.power = float(f[6]).value
                  /\ channel.snr = float(f[7]).value
                  /\ channel.corrected = int(f[8]).value
                  /\ channel.uncorrected = int(f[9]).value
                  /\ WellFormedDown[i] = "1^Locked^QAM256^20^543.0^1.4^45.1^41^0^" =>
                        channel = [channel_id |-> 1, lock_status |-> "Locked",
                                   modulation |-> "QAM256", ch_id |-> 20,
                                   frequency |-> 543000000,
                                   power |-> [kind |-> "finite", num |-> 14, exp |-> 1],
                                   snr |-> [kind |-> "finite", num |-> 451, exp |-> 1],
                                   corrected |-> 41, uncorrected |-> 0]

\* The record of the docstring parsed as the second channel of a payload.
C24_Witness ==
    /\ ParsedBy("MotorolaMB8600HnapParser")
    /\ Len(parsed.downstream) = 2
    /\ parsed.downstream[2].channel_id = 1
    /\ parsed.downstream[2].frequency = 543000000

\* The reading a table cell shows.
Shown(cell) == float(cell).value

\* C25: inside the restart window (uptime below 300 seconds) the MB7621 parse
\* reports a downstream power, a downstream SNR or an upstream power that is
\* exactly zero as null and leaves every other reading unchanged, each channel
\* and each reading on its own.
C25_ZeroFilteredInsideRestartWindow ==
    (ParsedBy("MotorolaMB7621Parser") /\ uptime < 300) =>
        /\ Len(parsed.downstream) = Len(html.downstream)
        /\ Len(parsed.upstream) = Len(html.upstream)
        /\ \A i \in DOMAIN parsed.downstream :
              /\ parsed.downstream[i].power =
                    IF IsZero(Shown(html.downstream[i][6])) THEN NoReading
                    ELSE Shown(html.downstream[i][6])
              /\ parsed.downstream[i].snr =
                    IF IsZero(Shown(html.downstream[i][7])) THEN NoReading
                    ELSE Shown(html.downstream[i][7])
        /\ \A i \in DOMAIN parsed.upstream :
              parsed.upstream[i].power =
                  IF IsZero(Shown(html.upstream[i][7])) THEN NoReading
                  ELSE Shown(html.upstream[i][7])

\* One second before the window ends: a channel with its zero power filtered and
\* its SNR kept, next to a channel with both readings kept.
C25_Witness ==
    /\ ParsedBy("MotorolaMB7621Parser")
    /\ uptime = 299
    /\ Len(parsed.downstream) = 2
    /\ parsed.downstream[1].power = NoReading
    /\ parsed.downstream[1].snr = [kind |-> "finite", num |-> 38, exp |-> 0]
    /\ parsed.downstream[2].power = [kind |-> "finite", num |-> 35, exp |-> 1]
    /\ parsed.upstream[1].power = NoReading

\* C26: outside the restart window (uptime of 300 seconds or more, 300 itself
\* included) every reading is reported as shown, a zero as 0; the window is 300
\* seconds long.
C26_ZeroKeptOutsideRestartWindow ==
    /\ RESTART_WINDOW_SECONDS = 300
    /\ (ParsedBy("MotorolaMB7621Parser") /\ uptime >= 300) =>
          /\ Len(parsed.downstream) = Len(html.downstream)
          /\ Len(parsed.upstream) = Len(html.upstream)
          /\ \A i \in DOMAIN parsed.downstream :
                /\ parsed.downstream[i].power = Shown(html.downstream[i][6])
                /\ parsed.downstream[i].snr = Shown(html.downstream[i][7])
          /\ \A i \in DOMAIN parsed.upstream :
                parsed.upstream[i].power = Shown(html.upstream[i][7])

\* Exactly 300 seconds after boot: zero power and zero SNR reported as 0.
C26_Witness ==
    /\ ParsedBy("MotorolaMB7621Parser")
    /\ uptime = 300
    /\ \E i \in DOMAIN parsed.downstream :
          IsZero(parsed.downstream[i].power) /\ IsZero(parsed.downstream[i].snr)
    /\ \E i \in DOMAIN parsed.upstream : IsZero(parsed.upstream[i].power)

\* C27: the restart-window rule holds for the HNAP parsing of the MB8600 too:
\* with an uptime below 300 seconds no power or SNR reading is reported as
\* zero (a zero reading is reported as null).
C27_HnapZeroFilteredInsideRestartWindow ==
    (ParsedBy("MotorolaMB8600HnapParser") /\ uptime < 300) =>
        /\ \A i \in DOMAIN parsed.downstream :
              ~IsZero(parsed.downstream[i].power) /\ ~IsZero(parsed.downstream[i].snr)
        /\ \A i \in DOMAIN parsed.upstream : ~IsZero(parsed.upstream[i].power)

\* C28: restart on the MB7621 parser sends one GET of /MotoSecurity.asp, then one
\* POST of the restart form to /goform/MotoSecurity, and nothing else; it returns
\* True when the POST is answered with status 200 and when the POST fails with a
\* connection reset.
C28_RestartOneGetOnePost ==
    /\ Len(http) <= 2
    /\ restart_ret # "none" =>
          /\ Len(http) = 2
          /\ http[1].method = "GET" /\ http[1].path = "/MotoSecurity.asp"
          /\ http[1].timeout = 10
          /\ http[2].method = "POST" /\ http[2].path = "/goform/MotoSecurity"
          /\ http[2].timeout = 10
          /\ http[2].data.MotoSecurityAction = "1"
          /\ \A k \in {"UserId", "OldPassword", "NewUserId", "Password", "PasswordReEnter"} :
                http[2].data[k] = ""
          /\ http[2].answer \in {"200", "ConnectionResetError"} => restart_ret = "True"

\* The modem went down while the POST was in flight and restart returned True.
C28_Witness ==
    /\ restart_ret = "True"
    /\ Len(http) = 2
    /\ http[2].answer = "ConnectionResetError"

\* ------------------------------------------ claims on parse and login
\* C29 as stated: when a request of MotorolaMB8600HnapParser.parse times out or
\* hits a connection error, parse fails at once: no further request is sent in
\* that call and the call does not return a result.
C29_ParseFailsAtFirstTransportError ==
    frame.call = "mb_parse" =>
        \A i \in DOMAIN replies :
            replies[i].transport # "ok" =>
                /\ Len(sent) = i
                /\ Returned("mb_parse") => ~ret.success

\* C29, amended: parse never repeats a request. Each action is requested at most
\* once; after a request that timed out the next action is requested, and parse
\* returns its result once all five actions were answered or failed.
C29_NoRetryInsideParse ==
    frame.call = "mb_parse" =>
        /\ Len(sent) <= Len(hnap_actions)
        /\ \A i, j \in DOMAIN sent : sent[i].soapAction = sent[j].soapAction => i = j
        /\ \A i \in DOMAIN replies :
              (replies[i].transport # "ok" /\ i < Len(hnap_actions)) => Len(sent) > i
        /\ Returned("mb_parse") =>
              Len(replies) = Len(hnap_actions) /\ ret.success /\ ~ret.raised

\* parse returned although its first request timed out.
C29_Witness ==
    /\ Returned("mb_parse")
    /\ replies[1].transport = "timeout"
    /\ Len(sent) = Len(hnap_actions)

\* C30: MotorolaMB8600HnapParser.login called without credentials returns
\* (False, None), and returns it instead of running the challenge-response
\* exchange: no request has been sent.
C30_NoCredentialsNoExchange ==
    (Returned("mb_login") /\ frame.password = Null) =>
        /\ ~ret.success
        /\ ret.detail = Null
        /\ sent = <<>>

\* ----------------------------------------------------- HNAP_AUTH header claims
\* The two parts of a header: the keyed hash and the timestamp.
HeaderParts == split(hnap_auth.value, " ")

\* a < b for two decimal numerals without leading zeros.
RECURSIVE DecimalLess(_, _)
DecimalLess(a, b) ==
    IF Len(a) # Len(b) THEN Len(a) < Len(b)
    ELSE IF a = "" THEN FALSE
    ELSE LET x == find(Digits, SubSeq(a, 1, 1))
             y == find(Digits, SubSeq(b, 1, 1))
         IN  IF x # y THEN x < y
             ELSE DecimalLess(SubSeq(a, 2, Len(a)), SubSeq(b, 2, Len(b)))

\* The numerals of the numbers below 2 * 10^12 that differ from ms by a
\* multiple of 2 * 10^12.
Residues(ms) ==
    {BigStr(Big(ms.hi - k * 2000000, ms.lo)) :
        k \in {k \in 0..2 : ms.hi - k * 2000000 \in 0..1999999}}

\* C31: every HNAP_AUTH header is the keyed hash of the timestamp followed by
\* the quoted SOAP action URI, a space, and the same timestamp; the timestamp
\* is the current time in milliseconds reduced modulo 2 * 10^12, so it lies in
\* [0, 2 * 10^12); the builder and the MB8600 parser reduce by the same modulus.
C31_HeaderIsHashThenTimestamp ==
    hnap_auth.by # "none" =>
        /\ Len(HeaderParts) = 2
        /\ IsDigits(HeaderParts[2])
        /\ DecimalLess(HeaderParts[2], "2000000000000")
        /\ HeaderParts[2] \in Residues(now.ms) \cup Residues(BigSucc(now.ms))
        /\ HeaderParts[1] =
               "H(" \o hnap_auth.key \o "|" \o HeaderParts[2] \o "\""
                    \o "http://purenetworks.com/HNAP1/" \o hnap_auth.action \o "\")"
        /\ JsonTimeModulo = TIME_MODULO

\* A header built by the builder in the year 2100, past 2 * 10^12 ms.
C31_Witness ==
    /\ hnap_auth.by = "json"
    /\ now.ms = Big(4102444, 800000)
    /\ HeaderParts[2] = "102444800000"

\* C39: the timestamp the builder puts in HNAP_AUTH is below 2^32.
C39_TimestampFitsIn32Bits ==
    hnap_auth.by = "json" => DecimalLess(HeaderParts[2], "4294967296")

\* C32: call_single and call_multiple sign with the same key.  A step that is
\* one of these calls sends exactly one request: for call_single a request
\* for its action, for call_multiple one GetMultipleHNAPs request that bundles
\* all the named actions.  The request that follows a successful login is
\* signed with the PrivateKey derived in that login, a request that follows
\* another data request is signed with the same key as that one, and before
\* any successful login the key is "withoutloginkey".
C32_Step ==
    (pc = "idle" /\ pc' = "idle" /\ frame'.call \in {"call_single", "call_multiple"}) =>
        /\ Len(sent') = 1
        /\ sent'[1].call = frame'.call
        /\ sent'[1].actions = frame'.actions
        /\ frame'.call = "call_single" =>
               Len(frame'.actions) = 1 /\ sent'[1].soapAction = frame'.actions[1]
        /\ frame'.call = "call_multiple" => sent'[1].soapAction = "GetMultipleHNAPs"
        /\ (ret.call = "json_login" /\ ret.success) => sent'[1].key = frame.key
        /\ ret.call \in {"call_single", "call_multiple"} => sent'[1].key = sent[1].key
        /\ logged_in = {} => sent'[1].key = "withoutloginkey"

C32_CallsSignedWithLoginKey == [][C32_Step]_vars

\* A batch of two actions sent after a login, signed with the key of the login.
C32_Witness ==
    /\ frame.call = "call_multiple"
    /\ Len(sent) = 1 /\ Len(sent[1].actions) = 2
    /\ sent[1].key = "H(p1pw|c1)"
    /\ logged_in # {}

\* The request of an action failed: no response, an error status, or a body
\* that is not a JSON object.
ActionFailed(rep) ==
    rep.transport # "ok" \/ rep.status >= 400 \/ rep.body \in {"notjson", "nonobject"}

\* C33: _parse_with_hnap requests the five actions once each, in their order,
\* every request signed with the key read from the session when parse began;
\* what the result holds for an action depends on the reply to that action
\* alone: a failed request empties that action's part and no other.
C33_FiveActionsInOrderIndependent ==
    frame.call = "mb_parse" =>
        /\ Len(sent) <= 5
        /\ \A i \in DOMAIN sent :
              /\ sent[i].soapAction =
                     <<"GetMotoStatusStartupSequence", "GetMotoStatusConnectionInfo",
                       "GetMotoStatusDownstreamChannelInfo",
                       "GetMotoStatusUpstreamChannelInfo", "GetMotoLagStatus">>[i]
              /\ sent[i].key = frame.key
              /\ sent[i].key = MbParseKey(frame.session)
        /\ Returned("mb_parse") =>
              /\ Len(sent) = 5 /\ Len(replies) = 5
              /\ ret.result.downstream = "empty" <=> ActionFailed(replies[3])
              /\ ret.result.upstream = "empty" <=> ActionFailed(replies[4])
              /\ ret.result.system_info = "empty" <=>
                     (ActionFailed(replies[1]) /\ ActionFailed(replies[2]))

\* The downstream request failed and the upstream channels were still
\* extracted.
C33_Witness ==
    /\ Returned("mb_parse")
    /\ ActionFailed(replies[3]) /\ ~ActionFailed(replies[4])
    /\ ret.result.downstream = "empty" /\ ret.result.upstream = "channels"

\* C34: parse raises exactly when session or base_url is missing; otherwise,
\* whatever the replies, it returns a result with downstream, upstream and
\* system_info, and _auth_failure only comes with empty channel lists.
C34_RaisesOnlyOnMissingArguments ==
    (pc = "idle" /\ ret.call \in {"parse", "mb_parse"}) =>
        /\ ret.raised <=> (frame.session = 0 \/ frame.base_url \in {Null, ""})
        /\ ret.raised => Len(sent) = 0
        /\ ~ret.raised =>
              /\ ret.result.downstream # Null
              /\ ret.result.upstream # Null
              /\ ret.result.system_info # Null
              /\ ret.result.auth_failure =>
                     ret.result.downstream = "empty" /\ ret.result.upstream = "empty"

\* parse was given a session and an empty base URL, and raised.
C34_WitnessRaised ==
    pc = "idle" /\ ret.call = "parse" /\ ret.raised /\ frame.session # 0
        /\ frame.base_url = ""

\* C35: after a get_parser_by_name call and a get_parsers(use_cache=False)
\* call of two threads have both returned, the name index is unbuilt or maps
\* exactly the names of the cached list to the classes of that list.
C35_IndexOfCachedListAfterBothReturn ==
    (\E t, u \in Threads :
        /\ t # u
        /\ HasReturned(t, "get_parser_by_name")
        /\ HasReturned(u, "get_parsers") /\ ~threads[u].use_cache)
    => \/ _PARSER_NAME_CACHE.none
       \/ _PARSER_NAME_CACHE.dict = IndexOf(_PARSER_CACHE.items)

\* C36: the list get_parsers returns is determined by the set of modules it
\* discovered: scanning the manufacturer directories in any other order gives
\* the same sequence, also when several parsers have the same sort key.
C36_OrderIndependentOfScanOrder ==
    \A t \in OneThread :
        (HasReturned(t, "get_parsers") /\ threads[t].rv.kind = "list") =>
            \A order \in DirOrders :
                Discover(order, threads[t].rv.list.from) = threads[t].rv.list.items

\* --------------------------------------------------------- sanitizer claims
\* The value a reference stands for, with the objects it refers to in place.
RECURSIVE Unfold(_, _)
Unfold(h, value) ==
    IF value.t = "ref"
    THEN [kind |-> h[value.ref].kind,
          items |-> [k \in DOMAIN h[value.ref].items |->
                        Member(h[value.ref].items[k].key,
                               Unfold(h, h[value.ref].items[k].value))]]
    ELSE value

\* value[path[1]][path[2]]..., a number standing for an index of a list.
RECURSIVE At(_, _, _)
At(h, value, path) ==
    IF path = <<>> THEN value
    ELSE IF value.t # "ref" THEN Missing
    ELSE IF h[value.ref].kind = "list"
    THEN At(h, h[value.ref].items[1].value, Tail(path))
    ELSE At(h, Get(h[value.ref], Head(path)), Tail(path))

\* Where the bodies of the entry of a HAR and of an entry are.
RequestOf(fn) ==
    IF fn = "sanitize_har" THEN <<"log", "entries", "1", "request">> ELSE <<"request">>
ResponseOf(fn) ==
    IF fn = "sanitize_har" THEN <<"log", "entries", "1", "response">> ELSE <<"response">>

\* The field names of the captured bodies that are sensitive.
SensitiveNames ==
    {"LoginPassword", "password", "PublicKey", "auth_token", "credentials", "token"}

\* Some field with a sensitive name, at any depth, holds something else than
\* the redaction mark.
RECURSIVE Leaks(_)
Leaks(data) ==
    \E i \in DOMAIN data.members :
        \/ data.members[i].key \in SensitiveNames
              /\ data.members[i].value # JString("[REDACTED]")
        \/ Leaks(data.members[i].value)

\* A JSON body in which a sensitive field was left.
LeakingBody(text) == text.t = "json" /\ Leaks(text.json)

\* C37: in the HAR sanitize_har returns, no JSON body of a request or of a
\* response holds the value of a field with a sensitive name, at whatever depth
\* the field is and whatever the type of its value.
C37_NoSensitiveJsonFieldSurvives ==
    sanitized.fn = "sanitize_har" =>
        /\ ~LeakingBody(At(heap, sanitized.result,
                           <<"log", "entries", "1", "request", "postData", "text">>))
        /\ ~LeakingBody(At(heap, sanitized.result,
                           <<"log", "entries", "1", "response", "content", "text">>))

\* C38: sanitize_har, sanitize_entry and sanitize_post_data leave the objects
\* of their argument as they were; what they redact is a copy that shares no
\* object with the argument, and a HAR without "log" comes back as a copy equal
\* to the argument.
C38_ArgumentUnchanged ==
    sanitized.fn # "none" =>
        /\ Len(heap) >= Len(sanitized.before)
        /\ \A i \in 1..Len(sanitized.before) : heap[i] = sanitized.before[i]
        /\ Truthy(sanitized.before, sanitized.arg) =>
              /\ sanitized.result # sanitized.arg
              /\ Reachable(heap, sanitized.result) \cap (1..Len(sanitized.before)) = {}
        /\ (sanitized.fn = "sanitize_har" /\ ~Has(sanitized.before[1], "log")) =>
              Unfold(heap, sanitized.result) = Unfold(sanitized.before, sanitized.arg)

\* sanitize_har returned a HAR in which the Cookie header of the request is
\* redacted, and the caller's HAR still holds the cookie.
C38_Witness ==
    /\ sanitized.fn = "sanitize_har"
    /\ At(heap, sanitized.result, <<"log", "entries", "1", "request", "headers", "1", "value">>)
           = Str("uid=[REDACTED]; lang=[REDACTED]")
    /\ At(heap, sanitized.arg, <<"log", "entries", "1", "request", "headers", "1", "value">>)
           = Str("uid=u1; lang=en")

=============================================================================
